---- MODULE Spec2Model ----
(***************************************************************************)
(* Model of the access-control and invite-code sharing subsystem of        *)
(* tracker2api: the relational store (internal/db/db.go), the code codec   *)
(* (internal/api/invite.go) and the HTTP handlers (internal/auth/auth.go). *)
(* Every database round trip of a handler is one step; a transaction       *)
(* buffers its writes and publishes them at commit (READ COMMITTED).       *)
(***************************************************************************)
EXTENDS Integers, Sequences, FiniteSets, Bags, TLC

(***************************************************************************)
(* Bounds of the model.                                                    *)
(***************************************************************************)
MaxPregnancies == 2
MaxCodes == 2
MaxRedeems == 2
MaxAttempts == 6
MaxTicks == 2
MaxRequests == 2
MaxApproves == 2
MaxWrites == 2

(***************************************************************************)
(* Program constants.                                                      *)
(***************************************************************************)
\* time is counted in half hours: 48 hours, 1 hour
CodeExpiration == 96
RateWindow == 2
RateLimit == 5
adminEmail == "tsrlegends@gmail.com"
otherEmail == "someone@example.com"

NULL == "NULL"
NULLT == -1

Users == {"u1", "u2", "u3"}
Emails == {adminEmail, otherEmail}
Roles == {"father", "support"}
Permissions == {"read", "write"}

\* the display name a user submits with a request
DisplayNameOf(u) ==
  CASE u = "u1" -> "Ann" [] u = "u2" -> "Bob" [] OTHER -> "Cat"

(***************************************************************************)
(* Code codec and credential hasher (internal/api/invite.go).              *)
(* A string is a sequence of one-character strings.                        *)
(***************************************************************************)
codeAlphabet ==
  << "2","3","4","5","6","7","8","9","A","B","C","D","E","F","G","H",
     "J","K","M","N","P","Q","R","S","T","U","V","W","X","Y","Z" >>

LowerLetters ==
  << "a","b","c","d","e","f","g","h","i","j","k","l","m",
     "n","o","p","q","r","s","t","u","v","w","x","y","z" >>

UpperLetters ==
  << "A","B","C","D","E","F","G","H","I","J","K","L","M",
     "N","O","P","Q","R","S","T","U","V","W","X","Y","Z" >>

SeqRange(s) == { s[i] : i \in 1..Len(s) }

\* strings.ToUpper, on one character and on a string
ToUpperChar(c) ==
  IF \E i \in 1..Len(LowerLetters) : LowerLetters[i] = c
    THEN UpperLetters[CHOOSE i \in 1..Len(LowerLetters) : LowerLetters[i] = c]
    ELSE c

ToUpper(s) == [ i \in 1..Len(s) |-> ToUpperChar(s[i]) ]

\* LOWER(), on one character and on a string
ToLowerChar(c) ==
  IF \E i \in 1..Len(UpperLetters) : UpperLetters[i] = c
    THEN LowerLetters[CHOOSE i \in 1..Len(UpperLetters) : UpperLetters[i] = c]
    ELSE c

ToLower(s) == [ i \in 1..Len(s) |-> ToLowerChar(s[i]) ]

\* strings.ReplaceAll(s, old, "") for a one-character old
ReplaceAll(s, old) ==
  LET keep(c) == c # old IN SelectSeq(s, keep)

NormalizeCode(code) == ReplaceAll(ReplaceAll(ToUpper(code), "-"), " ")

\* a validation that accepts every text
IsValidCodeFormat_Any(code) == TRUE

\* a validation of the length alone
IsValidCodeFormat_LengthOnly(code) == Len(NormalizeCode(code)) = 10

IsValidCodeFormat(code) ==
  LET normalized == NormalizeCode(code) IN
    /\ Len(normalized) = 10
    /\ \A i \in 1..Len(normalized) : normalized[i] \in SeqRange(codeAlphabet)

\* the prefix column holding the whole normalized code
GetCodePrefix_Whole(code) == NormalizeCode(code)

GetCodePrefix(code) ==
  LET normalized == NormalizeCode(code) IN
    IF Len(normalized) < 4 THEN normalized ELSE SubSeq(normalized, 1, 4)

\* code[i] = codeAlphabet[randomBytes[i] % alphabetLen], formatted XXXX-XXXX-XX
GenerateInviteCode(randomBytes) ==
  LET alphabetLen == Len(codeAlphabet) % 256
      code == [ i \in 1..10 |-> codeAlphabet[(randomBytes[i] % alphabetLen) + 1] ]
  IN SubSeq(code, 1, 4) \o <<"-">> \o SubSeq(code, 5, 8) \o <<"-">> \o SubSeq(code, 9, 10)

(***************************************************************************)
(* Inputs: the draws of the random source and the texts a client submits.  *)
(***************************************************************************)
RandomSamples ==
  << << 0, 1, 2, 3, 4, 5, 6, 7, 8, 9 >>,
     << 255, 31, 62, 40, 41, 42, 43, 44, 45, 46 >> >>

\* the codes GenerateInviteCode returns for the draws
GeneratedCodes ==
  [ i \in 1..Len(RandomSamples) |-> GenerateInviteCode(RandomSamples[i]) ]

\* a code typed in lower case without separators
TypedLoose(code) == ReplaceAll(ToLower(code), "-")

\* what a client types: the first code as issued, the second typed loosely,
\* a text of the wrong shape, a well-formed text that was never issued
Text1 == GeneratedCodes[1]
Text2 == TypedLoose(GeneratedCodes[2])
BadFormatText == << "A", "B", "0", "1" >>
UnissuedText == << "Z","Z","Z","Z","-","Z","Z","Z","Z","-","Z","Z" >>

IssuedTexts == { Text1, Text2 }
SubmittedTexts ==
  { GeneratedCodes[i] : i \in 1..Len(RandomSamples) }
  \cup IssuedTexts \cup { BadFormatText, UnissuedText }

\* NormalizeCode of the texts above, computed once
Normalized == [ t \in SubmittedTexts |-> NormalizeCode(t) ]

NormalForm(code) ==
  IF code \in DOMAIN Normalized THEN Normalized[code] ELSE NormalizeCode(code)

\* bcrypt: a salted one-way digest; equal digests only for equal salt and password
Bcrypt(salt, password) == << "bcrypt", salt, password >>

\* bcrypt.GenerateFromPassword([]byte(NormalizeCode(code)), bcrypt.DefaultCost)
HashCode(code, salt) ==
  [ salt |-> salt, sum |-> Bcrypt(salt, NormalForm(code)) ]

\* bcrypt.CompareHashAndPassword([]byte(hash), []byte(NormalizeCode(code))) == nil
VerifyCode(code, hash) == Bcrypt(hash.salt, NormalForm(code)) = hash.sum

(***************************************************************************)
(* State.                                                                  *)
(***************************************************************************)
VARIABLES
  now,               \* the server clock, NOW()
  pregnancies,       \* clingy_pregnancies, row id = index
  invite_codes,      \* clingy_invite_codes, row id = index
  supporters,        \* clingy_supporters, row id = index
  code_attempts,     \* clingy_code_attempts, a bag of rows
  redeem,            \* the in-flight and finished RedeemInviteCode requests
  pairing_requests,  \* clingy_pairing_requests, row id = index
  approve,           \* the in-flight and finished ApprovePairingRequest calls
  content,           \* per pregnancy: profile, entries, settings, files
  write,             \* the in-flight and finished calls of mutating endpoints
  access             \* the answer of the last GetMyRole call

dbvars == << pregnancies, invite_codes, supporters, code_attempts >>
pairingvars == << pairing_requests, approve >>
writevars == << content, write, access >>
vars == << now, pregnancies, invite_codes, supporters, code_attempts, redeem,
           pairing_requests, approve, content, write, access >>

RedeemIds == DOMAIN redeem

IdleRedeem ==
  [ pc |-> "idle", user |-> NULL, code |-> << >>, email |-> NULL,
    matched |-> 0, tx |-> {}, at |-> NULLT, result |-> NULL,
    permission |-> NULL, pregnancy |-> 0 ]

\* no call answered yet; role, permission, pregnancy are GetMyRole's answer,
\* found and granted are what getAccessiblePregnancy returns
NoAccess ==
  [ user |-> NULL, role |-> NULL, permission |-> NULL, pregnancy |-> 0,
    found |-> FALSE, granted |-> [ pregnancy |-> 0, permission |-> NULL ] ]

Init ==
  /\ now = 0
  /\ pregnancies = << >>
  /\ invite_codes = << >>
  /\ supporters = << >>
  /\ code_attempts = EmptyBag
  /\ redeem = [ r \in 1..MaxRedeems |-> IdleRedeem ]
  /\ pairing_requests = << >>
  /\ approve = << >>
  /\ content = {}
  /\ write = << >>
  /\ access = NoAccess

(***************************************************************************)
(* Rows and queries of the store (internal/db/db.go).                      *)
(***************************************************************************)
NewPregnancy(ownerID) ==
  [ owner_id |-> ownerID, partner_id |-> NULL, partner_status |-> NULL,
    partner_permission |-> NULL, partner_name |-> NULL,
    display_partner_card |-> TRUE, coowner_id |-> NULL, archived |-> FALSE,
    outcome |-> "ongoing", profile |-> "new" ]

NewInviteCode(pregnancyID, codeHash, codePrefix, role, permission, expiresAt) ==
  [ pregnancy_id |-> pregnancyID, code_hash |-> codeHash,
    code_prefix |-> codePrefix, role |-> role, permission |-> permission,
    created_at |-> now, expires_at |-> expiresAt,
    redeemed_at |-> NULLT, redeemed_by |-> NULL, revoked_at |-> NULLT ]

PregnancyIds == 1..Len(pregnancies)
CodeIds == 1..Len(invite_codes)
SupporterIds == 1..Len(supporters)

\* a lookup that also finds the pregnancy of a partner
GetPregnancyByOwner_OrPartner(ownerID) ==
  { p \in PregnancyIds : \/ pregnancies[p].owner_id = ownerID
                         \/ pregnancies[p].partner_id = ownerID }

\* SELECT * FROM clingy_pregnancies WHERE owner_id = $1
GetPregnancyByOwner(ownerID) ==
  { p \in PregnancyIds : pregnancies[p].owner_id = ownerID }

\* the condition without revoked_at IS NULL
IsActiveCode_RevokedToo(code, t) ==
  /\ code.redeemed_at = NULLT
  /\ code.expires_at > t

\* the condition without expires_at > NOW()
IsActiveCode_NoExpiry(code, t) ==
  /\ code.redeemed_at = NULLT
  /\ code.revoked_at = NULLT

\* redeemed_at IS NULL AND revoked_at IS NULL AND expires_at > NOW()
IsActiveCode(code, t) ==
  /\ code.redeemed_at = NULLT
  /\ code.revoked_at = NULLT
  /\ code.expires_at > t

FindActiveInviteCodes ==
  { c \in CodeIds : IsActiveCode(invite_codes[c], now) }

\* the query without pregnancy_id = $1
GetActiveInviteCodes_AllPregnancies(pregnancyID) ==
  { c \in CodeIds : IsActiveCode(invite_codes[c], now) }

\* WHERE pregnancy_id = $1 AND the three conditions of an active code
GetActiveInviteCodes(pregnancyID) ==
  { c \in CodeIds : /\ invite_codes[c].pregnancy_id = pregnancyID
                    /\ IsActiveCode(invite_codes[c], now) }

\* the rows of a bag, counted with multiplicity
RECURSIVE SumCopies(_, _)
SumCopies(rows, bag) ==
  IF rows = {} THEN 0
  ELSE LET x == CHOOSE y \in rows : TRUE
       IN CopiesIn(x, bag) + SumCopies(rows \ {x}, bag)

\* the same count without the condition success = false
CountRecentCodeAttempts_AnyOutcome(userID) ==
  LET recent(a) == /\ a.user_id = userID
                   /\ a.attempted_at > now - RateWindow
  IN SumCopies({ a \in BagToSet(code_attempts) : recent(a) }, code_attempts)

\* the same count without the condition on attempted_at
CountRecentCodeAttempts_Ever(userID) ==
  LET failure(a) == a.user_id = userID /\ a.success = FALSE
  IN SumCopies({ a \in BagToSet(code_attempts) : failure(a) }, code_attempts)

\* user_id = $1 AND attempted_at > NOW() - INTERVAL '1 hour' AND success = false
CountRecentCodeAttempts(userID) ==
  LET recentFailure(a) == /\ a.user_id = userID
                          /\ a.attempted_at > now - RateWindow
                          /\ a.success = FALSE
  IN SumCopies({ a \in BagToSet(code_attempts) : recentFailure(a) }, code_attempts)

\* no row is inserted
RecordCodeAttempt_Nothing(userID, success) == code_attempts

RecordCodeAttempt(userID, success) ==
  code_attempts \oplus SetToBag({ [ user_id |-> userID, attempted_at |-> now,
                                    success |-> success ] })

(***************************************************************************)
(* Pregnancy creation and invite code issue.                               *)
(***************************************************************************)
\* Handler.CreatePregnancy: the insert fails on the UNIQUE owner_id
CreatePregnancy(ownerID) ==
  /\ Len(pregnancies) < MaxPregnancies
  /\ GetPregnancyByOwner(ownerID) = {}
  /\ pregnancies' = Append(pregnancies, NewPregnancy(ownerID))
  /\ UNCHANGED << now, invite_codes, supporters, code_attempts, redeem, pairingvars,
               writevars >>

\* the random draws already used by a stored code
UsedSamples ==
  { i \in 1..Len(RandomSamples) :
      \E c \in CodeIds : VerifyCode(GeneratedCodes[i], invite_codes[c].code_hash) }

\* Handler.GenerateInviteCode: owner only; a father code needs a free partner slot
GenerateCode(userID, role, reqPermission, sample) ==
  /\ Len(invite_codes) < MaxCodes
  /\ sample \in 1..Len(RandomSamples)
  /\ sample \notin UsedSamples
  /\ GetPregnancyByOwner(userID) # {}
  /\ LET p == CHOOSE q \in GetPregnancyByOwner(userID) : TRUE
         permission == IF reqPermission = "" THEN "read" ELSE reqPermission
         code == GeneratedCodes[sample]
         codeHash == HashCode(code, Len(invite_codes) + 1)
     IN /\ ~ (role = "father" /\ pregnancies[p].partner_id # NULL)
        /\ permission \in Permissions
        /\ invite_codes' = Append(invite_codes,
              NewInviteCode(p, codeHash, GetCodePrefix(code), role, permission,
                            now + CodeExpiration))
  /\ UNCHANGED << now, pregnancies, supporters, code_attempts, redeem, pairingvars,
               writevars >>

(***************************************************************************)
(* Handler.RedeemInviteCode (auth.go) around db.RedeemInviteCode (db.go).  *)
(***************************************************************************)
TxPcs == { "tx_locked", "tx_written" }

\* a SELECT without FOR UPDATE takes no lock
RowLocked_NoLock(c) == FALSE

\* the row lock SELECT ... FOR UPDATE takes on an invite code until commit
RowLocked(c) ==
  \E r \in RedeemIds : redeem[r].matched = c /\ redeem[r].pc \in TxPcs

\* a limiter that rejects when the count cannot be read
RateLimited_FailClosed(countErr, attempts) == countErr \/ attempts >= RateLimit

\* err == nil && attempts >= 5
RateLimited(countErr, attempts) == (~ countErr) /\ attempts >= RateLimit

\* the first statements of the handler: count, rate check, format validation
RedeemArrive(r, userID, code, email, countErr) ==
  /\ redeem[r].pc = "idle"
  /\ \A q \in RedeemIds : q < r => redeem[q].pc # "idle"
  /\ LET attempts == IF countErr THEN 0 ELSE CountRecentCodeAttempts(userID)
         req == [ IdleRedeem EXCEPT !.user = userID, !.code = code, !.email = email ]
     IN redeem' = [ redeem EXCEPT ![r] =
          IF RateLimited(countErr, attempts)
            THEN [ IdleRedeem EXCEPT !.user = userID, !.code = code,
                                     !.pc = "done", !.result = "RateLimited" ]
          ELSE IF ~ IsValidCodeFormat(code)
            THEN [ req EXCEPT !.pc = "record", !.result = "ValidationError" ]
          ELSE [ req EXCEPT !.pc = "scan" ] ]
  /\ UNCHANGED << now, dbvars, pairingvars, writevars >>

\* the codes of the active set that verify against the submitted text
MatchingCodes(code) ==
  { c \in FindActiveInviteCodes : VerifyCode(code, invite_codes[c].code_hash) }

\* FindActiveInviteCodes and the bcrypt scan; the scan order is the store's
RedeemScan(r) ==
  /\ redeem[r].pc = "scan"
  /\ IF MatchingCodes(redeem[r].code) = {}
       THEN redeem' = [ redeem EXCEPT ![r].pc = "record", ![r].result = "NotFound" ]
       ELSE \E c \in MatchingCodes(redeem[r].code) :
              redeem' = [ redeem EXCEPT ![r].pc = "tx_begin", ![r].matched = c ]
  /\ UNCHANGED << now, dbvars, pairingvars, writevars >>

\* FindActiveInviteCodes fails: INTERNAL_ERROR is answered at once
RedeemScanFail(r) ==
  /\ redeem[r].pc = "scan"
  /\ redeem' = [ redeem EXCEPT ![r].pc = "done", ![r].result = "Internal",
                               ![r].email = NULL ]
  /\ UNCHANGED << now, dbvars, pairingvars, writevars >>

\* BeginTxx and SELECT ... FOR UPDATE of the matched code
RedeemTxSelect(r) ==
  /\ redeem[r].pc = "tx_begin"
  /\ LET c == redeem[r].matched IN
       IF ~ IsActiveCode(invite_codes[c], now)
         THEN redeem' = [ redeem EXCEPT ![r].pc = "record", ![r].result = "NotFound" ]
         ELSE /\ ~ RowLocked(c)
              /\ redeem' = [ redeem EXCEPT ![r].pc = "tx_locked", ![r].at = now ]
  /\ UNCHANGED << now, dbvars, pairingvars, writevars >>

\* the update of the code issued on the connection pool instead of the
\* transaction: it is visible at once and no rollback undoes it
RedeemTxWrite_OutsideTx(r) ==
  /\ redeem[r].pc = "tx_locked"
  /\ invite_codes' = [ invite_codes EXCEPT
                         ![redeem[r].matched].redeemed_at = redeem[r].at,
                         ![redeem[r].matched].redeemed_by = redeem[r].user ]
  /\ redeem' = [ redeem EXCEPT ![r].pc = "tx_written", ![r].tx = {"role"} ]
  /\ UNCHANGED << now, pregnancies, supporters, code_attempts, pairingvars,
               writevars >>

\* the statements of the transaction after the lock: the update of the code and
\* the partner update or supporter upsert, buffered until commit
RedeemTxWrite(r) ==
  /\ redeem[r].pc = "tx_locked"
  /\ redeem' = [ redeem EXCEPT ![r].pc = "tx_written", ![r].tx = {"code", "role"} ]
  /\ UNCHANGED << now, dbvars, pairingvars, writevars >>

MarkRedeemed(codes, c, userID, t) ==
  [ codes EXCEPT ![c].redeemed_at = t, ![c].redeemed_by = userID ]

\* permission := code.Permission; if email == adminEmail { permission = "write" }
EffectivePermission(code, email) ==
  IF email = adminEmail THEN "write" ELSE code.permission

SetPartner(pregs, p, userID, permission, displayName, isAdmin) ==
  [ pregs EXCEPT ![p].partner_id = userID,
                 ![p].partner_status = "approved",
                 ![p].partner_permission = permission,
                 ![p].partner_name = displayName,
                 ![p].display_partner_card = ~ isAdmin ]

\* the INSERT without its ON CONFLICT clause, on a table without the constraint
UpsertSupporter_InsertOnly(supps, p, userID, displayName, codeID, isAdmin, t) ==
  Append(supps,
    [ pregnancy_id |-> p, user_id |-> userID, display_name |-> displayName,
      permission |-> "read", joined_at |-> t, invited_via_code_id |-> codeID,
      removed_at |-> NULLT, display_partner_card |-> ~ isAdmin ])

\* INSERT INTO clingy_supporters ... ON CONFLICT (pregnancy_id, user_id) DO UPDATE
UpsertSupporter(supps, p, userID, displayName, codeID, isAdmin, t) ==
  IF \E s \in 1..Len(supps) : supps[s].pregnancy_id = p /\ supps[s].user_id = userID
    THEN LET s == CHOOSE q \in 1..Len(supps) :
                    supps[q].pregnancy_id = p /\ supps[q].user_id = userID
         IN [ supps EXCEPT ![s].display_name = displayName,
                           ![s].removed_at = NULLT,
                           ![s].joined_at = t,
                           ![s].display_partner_card = ~ isAdmin ]
    ELSE Append(supps,
           [ pregnancy_id |-> p, user_id |-> userID, display_name |-> displayName,
             permission |-> "read", joined_at |-> t, invited_via_code_id |-> codeID,
             removed_at |-> NULLT, display_partner_card |-> ~ isAdmin ])

\* the final SELECT of the pregnancy and tx.Commit: the buffered writes become visible
RedeemTxCommit(r) ==
  /\ redeem[r].pc = "tx_written"
  /\ LET q == redeem[r]
         c == q.matched
         code == invite_codes[c]
         isAdmin == q.email = adminEmail
         permission == EffectivePermission(code, q.email)
     IN /\ invite_codes' =
             IF "code" \in q.tx THEN MarkRedeemed(invite_codes, c, q.user, q.at)
                                ELSE invite_codes
        /\ pregnancies' =
             IF "role" \in q.tx /\ code.role = "father"
               THEN SetPartner(pregnancies, code.pregnancy_id, q.user, permission,
                               DisplayNameOf(q.user), isAdmin)
               ELSE pregnancies
        /\ supporters' =
             IF "role" \in q.tx /\ code.role # "father"
               THEN UpsertSupporter(supporters, code.pregnancy_id, q.user,
                                    DisplayNameOf(q.user), c, isAdmin, q.at)
               ELSE supporters
        /\ redeem' = [ redeem EXCEPT ![r].pc = "record", ![r].tx = {},
                                     ![r].result = "ok",
                                     ![r].permission = permission,
                                     ![r].pregnancy = code.pregnancy_id ]
  /\ UNCHANGED << now, code_attempts, pairingvars,
               writevars >>

\* a statement of the transaction or the commit fails: defer tx.Rollback()
RedeemTxFail(r) ==
  /\ redeem[r].pc \in TxPcs
  /\ redeem' = [ redeem EXCEPT ![r].pc = "record", ![r].tx = {},
                               ![r].result = "Internal" ]
  /\ UNCHANGED << now, dbvars, pairingvars, writevars >>

\* h.db.RecordCodeAttempt(ctx, user.UserID, success, r.RemoteAddr) and the response
RedeemRecord(r) ==
  /\ redeem[r].pc = "record"
  /\ code_attempts' = RecordCodeAttempt(redeem[r].user, redeem[r].result = "ok")
  /\ redeem' = [ redeem EXCEPT ![r].pc = "done", ![r].email = NULL,
                               ![r].at = NULLT ]
  /\ UNCHANGED << now, pregnancies, invite_codes, supporters, pairingvars,
               writevars >>

\* the handler has answered and returns: the request is gone
RedeemReturn(r) ==
  /\ redeem[r].pc = "done"
  /\ redeem' = [ redeem EXCEPT ![r] = IdleRedeem ]
  /\ UNCHANGED << now, dbvars, pairingvars, writevars >>

(***************************************************************************)
(* Revocation, supporter removal, unpairing, the clock.                    *)
(***************************************************************************)
OwnedBy(pregnancyID, ownerID) == pregnancies[pregnancyID].owner_id = ownerID

\* the condition without the owner's subquery
RevokeMatches_AnyOwner(c, ownerID) ==
  /\ c \in CodeIds
  /\ invite_codes[c].redeemed_at = NULLT
  /\ invite_codes[c].revoked_at = NULLT

\* the rows the UPDATE of db.RevokeInviteCode matches
RevokeMatches(c, ownerID) ==
  /\ c \in CodeIds
  /\ OwnedBy(invite_codes[c].pregnancy_id, ownerID)
  /\ invite_codes[c].redeemed_at = NULLT
  /\ invite_codes[c].revoked_at = NULLT

RevokeInviteCode(c, ownerID) ==
  /\ RevokeMatches(c, ownerID)
  /\ ~ RowLocked(c)
  /\ invite_codes' = [ invite_codes EXCEPT ![c].revoked_at = now ]
  /\ UNCHANGED << now, pregnancies, supporters, code_attempts, redeem, pairingvars,
               writevars >>

\* the condition without the owner's subquery
RemoveSupporterMatches_AnyOwner(s, ownerID) ==
  /\ s \in SupporterIds
  /\ supporters[s].removed_at = NULLT

RemoveSupporterMatches(s, ownerID) ==
  /\ s \in SupporterIds
  /\ OwnedBy(supporters[s].pregnancy_id, ownerID)
  /\ supporters[s].removed_at = NULLT

RemoveSupporter(s, ownerID) ==
  /\ RemoveSupporterMatches(s, ownerID)
  /\ supporters' = [ supporters EXCEPT ![s].removed_at = now ]
  /\ UNCHANGED << now, pregnancies, invite_codes, code_attempts, redeem, pairingvars,
               writevars >>

\* an UPDATE that sets nothing
ClearPartner_Nothing(row) == row

\* an UPDATE that clears the partner's id only
ClearPartner_IdOnly(row) == [ row EXCEPT !.partner_id = NULL ]

ClearPartner(row) ==
  [ row EXCEPT !.partner_id = NULL, !.partner_status = NULL,
               !.partner_permission = NULL ]

\* db.RemovePairing: as owner first, then as partner
RemovePairing(userID) ==
  LET asOwner == { p \in PregnancyIds : /\ pregnancies[p].owner_id = userID
                                        /\ pregnancies[p].partner_id # NULL }
      asPartner == { p \in PregnancyIds : pregnancies[p].partner_id = userID }
      rows == IF asOwner # {} THEN asOwner ELSE asPartner
  IN /\ rows # {}
     /\ pregnancies' = [ p \in PregnancyIds |->
                           IF p \in rows THEN ClearPartner(pregnancies[p])
                                         ELSE pregnancies[p] ]
     /\ UNCHANGED << now, invite_codes, supporters, code_attempts, redeem, pairingvars,
               writevars >>

\* half an hour passes
TickHalfHour ==
  /\ now % CodeExpiration < MaxTicks
  /\ now' = now + 1
  /\ UNCHANGED << pregnancies, invite_codes, supporters, code_attempts, redeem, pairingvars,
               writevars >>

\* half an hour passes around the expiry time of a code issued at time 0
TickExpiry ==
  /\ now >= CodeExpiration - MaxTicks
  /\ now < CodeExpiration + MaxTicks
  /\ now' = now + 1
  /\ UNCHANGED << pregnancies, invite_codes, supporters, code_attempts, redeem, pairingvars,
               writevars >>

(***************************************************************************)
(* Legacy pairing requests (db.go, auth.go).                               *)
(***************************************************************************)
\* the users table: tags->>'email' of each account; the table belongs to the
\* chat server and changes under this program: u3 takes the address n@x after
\* the first half hour
UserEmail(u) ==
  CASE u = "u1" -> << "a", "@", "x" >>
    [] u = "u2" -> << "b", "@", "x" >>
    [] OTHER -> IF now = 0 THEN << "c", "@", "x" >> ELSE << "n", "@", "x" >>

\* the addresses a requester names: u1's in capitals, u2's, and one that is
\* nobody's at first
TargetEmails ==
  { << "A", "@", "X" >>, << "b", "@", "x" >>, << "n", "@", "x" >> }

\* SELECT id FROM users WHERE LOWER(tags->>'email') = LOWER($1)
UsersByEmail(email) ==
  { u \in Users : ToLower(UserEmail(u)) = ToLower(email) }

RequestIds == 1..Len(pairing_requests)
ApproveIds == DOMAIN approve

IdleApprove ==
  [ pc |-> "idle", user |-> NULL, request |-> 0, permission |-> NULL,
    requester |-> NULL, at |-> NULLT, result |-> NULL ]

\* Handler.CreatePairingRequest and db.CreatePairingRequest
CreatePairingRequest(requesterID, targetEmail) ==
  /\ Len(pairing_requests) < MaxRequests
  /\ targetEmail # << >>
  /\ LET found == UsersByEmail(targetEmail)
         targetID == IF found = {} THEN NULL ELSE CHOOSE u \in found : TRUE
     IN pairing_requests' = Append(pairing_requests,
          [ requester_id |-> requesterID, target_id |-> targetID,
            status |-> "pending", permission |-> NULL, resolved_at |-> NULLT ])
  /\ UNCHANGED << now, dbvars, redeem, approve, writevars >>

\* the condition without target_id = $2
PendingFor_AnyTarget(requestID, targetID) ==
  /\ requestID \in RequestIds
  /\ pairing_requests[requestID].status = "pending"

\* WHERE id = $1 AND target_id = $2 AND status = 'pending'
PendingFor(requestID, targetID) ==
  /\ requestID \in RequestIds
  /\ pairing_requests[requestID].target_id = targetID
  /\ pairing_requests[requestID].status = "pending"

\* the row lock an UPDATE inside a transaction holds until commit
RequestLocked(requestID) ==
  \E a \in ApproveIds : approve[a].request = requestID /\ approve[a].pc = "locked"

\* the handler's permission check, BeginTxx and the SELECT of the pending request
ApproveSelect(a, userID, requestID, permission) ==
  /\ approve[a].pc = "idle"
  /\ \A b \in ApproveIds : b < a => approve[b].pc # "idle"
  /\ LET req == [ IdleApprove EXCEPT !.user = userID, !.pc = "done" ]
     IN approve' = [ approve EXCEPT ![a] =
          IF permission # "read" /\ permission # "write"
            THEN [ req EXCEPT !.result = "ValidationError" ]
          ELSE IF ~ PendingFor(requestID, userID)
            THEN [ req EXCEPT !.result = "NotFound" ]
          ELSE [ req EXCEPT !.pc = "selected", !.request = requestID,
                            !.permission = permission, !.at = now,
                            !.requester = pairing_requests[requestID].requester_id ] ]
  /\ UNCHANGED << now, dbvars, redeem, pairing_requests, writevars >>

\* UPDATE clingy_pairing_requests SET status = 'approved' ... WHERE id = $2
ApproveUpdateRequest(a) ==
  /\ approve[a].pc = "selected"
  /\ ~ RequestLocked(approve[a].request)
  /\ approve' = [ approve EXCEPT ![a].pc = "locked" ]
  /\ UNCHANGED << now, dbvars, redeem, pairing_requests, writevars >>

\* UPDATE clingy_pregnancies SET partner_id = $1, ... WHERE owner_id = $3
ApprovePartner(pregs, ownerID, requesterID, permission) ==
  [ p \in 1..Len(pregs) |->
      IF pregs[p].owner_id = ownerID
        THEN [ pregs[p] EXCEPT !.partner_id = requesterID,
                               !.partner_status = "approved",
                               !.partner_permission = permission ]
        ELSE pregs[p] ]

\* the update of the pregnancy and tx.Commit: both updates become visible
ApproveCommit(a) ==
  /\ approve[a].pc = "locked"
  /\ LET q == approve[a] IN
       /\ pairing_requests' = [ pairing_requests EXCEPT
                                  ![q.request].status = "approved",
                                  ![q.request].permission = q.permission,
                                  ![q.request].resolved_at = q.at ]
       /\ pregnancies' = ApprovePartner(pregnancies, q.user, q.requester, q.permission)
       /\ approve' = [ approve EXCEPT ![a].pc = "done", ![a].result = "ok",
                                       ![a].at = NULLT ]
  /\ UNCHANGED << now, invite_codes, supporters, code_attempts, redeem, writevars >>

\* db.DenyPairingRequest: one UPDATE ... WHERE ... status = 'pending'
DenyPairingRequest(requestID, targetID) ==
  /\ PendingFor(requestID, targetID)
  /\ ~ RequestLocked(requestID)
  /\ pairing_requests' = [ pairing_requests EXCEPT ![requestID].status = "denied",
                                                    ![requestID].resolved_at = now ]
  /\ UNCHANGED << now, dbvars, redeem, approve, writevars >>

\* db.UpdatePartnerPermission: WHERE owner_id = $2 AND partner_id IS NOT NULL
UpdatePartnerPermission(ownerID, permission) ==
  LET rows == { p \in PregnancyIds : /\ pregnancies[p].owner_id = ownerID
                                     /\ pregnancies[p].partner_id # NULL }
  IN /\ permission \in Permissions
     /\ rows # {}
     /\ pregnancies' = [ p \in PregnancyIds |->
                           IF p \in rows
                             THEN [ pregnancies[p] EXCEPT !.partner_permission = permission ]
                             ELSE pregnancies[p] ]
     /\ UNCHANGED << now, invite_codes, supporters, code_attempts, redeem,
                     pairingvars, writevars >>

(***************************************************************************)
(* The access resolver (auth.go).  A query that can match several rows     *)
(* returns one of them, whichever the store yields first.                  *)
(***************************************************************************)
GetPregnancyByCoowner(userID) ==
  { p \in PregnancyIds : pregnancies[p].coowner_id = userID }

\* WHERE partner_id = $1 AND partner_status = 'approved'
GetPregnancyByPartner(partnerID) ==
  { p \in PregnancyIds : /\ pregnancies[p].partner_id = partnerID
                         /\ pregnancies[p].partner_status = "approved" }

\* the active supporter rows of a user
GetSupporterByUserID(userID) ==
  { s \in SupporterIds : /\ supporters[s].user_id = userID
                         /\ supporters[s].removed_at = NULLT }

\* JOIN clingy_supporters s ... WHERE s.user_id = $1 AND s.removed_at IS NULL
GetPregnancyBySupporter(userID) ==
  { supporters[s].pregnancy_id :
      s \in { q \in SupporterIds : /\ supporters[q].user_id = userID
                                    /\ supporters[q].removed_at = NULLT } }

\* a default of write
OrRead_Write(permission) == "write"

\* permission := "read"; if x.Valid { permission = x.String }
OrRead(permission) == IF permission = NULL THEN "read" ELSE permission

\* the chain with the partner lookup ahead of the owner lookup
getAccessiblePregnancy_PartnerFirst(userID) ==
  IF GetPregnancyByPartner(userID) # {}
    THEN { [ pregnancy |-> p,
             permission |-> OrRead(pregnancies[p].partner_permission) ] :
             p \in GetPregnancyByPartner(userID) }
  ELSE IF GetPregnancyByOwner(userID) # {}
    THEN { [ pregnancy |-> p, permission |-> "write" ] :
             p \in GetPregnancyByOwner(userID) }
  ELSE IF GetPregnancyByCoowner(userID) # {}
    THEN { [ pregnancy |-> p, permission |-> "write" ] :
             p \in GetPregnancyByCoowner(userID) }
  ELSE { [ pregnancy |-> p, permission |-> OrRead(supporters[s].permission) ] :
           p \in GetPregnancyBySupporter(userID),
           s \in GetSupporterByUserID(userID) }

\* the possible results (pregnancy, permission); the empty set is ErrNotFound
getAccessiblePregnancy(userID) ==
  IF GetPregnancyByOwner(userID) # {}
    THEN { [ pregnancy |-> p, permission |-> "write" ] :
             p \in GetPregnancyByOwner(userID) }
  ELSE IF GetPregnancyByCoowner(userID) # {}
    THEN { [ pregnancy |-> p, permission |-> "write" ] :
             p \in GetPregnancyByCoowner(userID) }
  ELSE IF GetPregnancyByPartner(userID) # {}
    THEN { [ pregnancy |-> p,
             permission |-> OrRead(pregnancies[p].partner_permission) ] :
             p \in GetPregnancyByPartner(userID) }
  ELSE { [ pregnancy |-> p, permission |-> OrRead(supporters[s].permission) ] :
           p \in GetPregnancyBySupporter(userID),
           s \in GetSupporterByUserID(userID) }

\* Handler.GetMyRole: the same chain, with the role it reports
GetMyRole(userID) ==
  IF GetPregnancyByOwner(userID) # {}
    THEN { [ role |-> "owner", permission |-> "write", pregnancy |-> p ] :
             p \in GetPregnancyByOwner(userID) }
  ELSE IF GetPregnancyByCoowner(userID) # {}
    THEN { [ role |-> "coowner", permission |-> "write", pregnancy |-> p ] :
             p \in GetPregnancyByCoowner(userID) }
  ELSE IF GetPregnancyByPartner(userID) # {}
    THEN { [ role |-> "father",
             permission |-> OrRead(pregnancies[p].partner_permission),
             pregnancy |-> p ] : p \in GetPregnancyByPartner(userID) }
  ELSE IF GetPregnancyBySupporter(userID) # {}
    THEN { [ role |-> "support",
             permission |-> OrRead(supporters[s].permission),
             pregnancy |-> p ] :
             p \in GetPregnancyBySupporter(userID),
             s \in GetSupporterByUserID(userID) }
  ELSE { [ role |-> "", permission |-> "", pregnancy |-> 0 ] }

\* a client asks for its role and then calls an endpoint that resolves its access
ResolveAccess(userID) ==
  /\ \E x \in GetMyRole(userID) :
       \/ /\ getAccessiblePregnancy(userID) = {}
          /\ access' = [ NoAccess EXCEPT !.user = userID, !.role = x.role,
                            !.permission = x.permission, !.pregnancy = x.pregnancy ]
       \/ \E y \in getAccessiblePregnancy(userID) :
            access' = [ user |-> userID, role |-> x.role, permission |-> x.permission,
                        pregnancy |-> x.pregnancy, found |-> TRUE, granted |-> y ]
  /\ UNCHANGED << now, dbvars, redeem, pairingvars, content, write >>

(***************************************************************************)
(* The mutating endpoints (auth.go) over the content store (db.go).  A     *)
(* content row is an entry, a setting or a file record of a pregnancy.     *)
(***************************************************************************)
WriteIds == DOMAIN write

\* a response without the fields below: an error, or { "success": true }
NoBody == [ kind |-> "none" ]

IdleWrite ==
  [ pc |-> "idle", user |-> NULL, op |-> NULL, key |-> NULL, pregnancy |-> 0,
    permission |-> NULL, result |-> NULL, body |-> NoBody ]

ContentRow(p, kind, key, deleted) ==
  [ pregnancy_id |-> p, kind |-> kind, key |-> key, deleted |-> deleted ]

\* INSERT ... ON CONFLICT (pregnancy_id, entry_type, client_id) DO UPDATE SET
\* ..., deleted_at = NULL
UpsertEntry(rows, p, clientID) ==
  (rows \ { ContentRow(p, "entry", clientID, TRUE) })
    \cup { ContentRow(p, "entry", clientID, FALSE) }

\* UPDATE clingy_entries SET deleted_at = NOW() ... AND deleted_at IS NULL
DeleteEntry(rows, p, clientID) ==
  IF ContentRow(p, "entry", clientID, FALSE) \in rows
    THEN (rows \ { ContentRow(p, "entry", clientID, FALSE) })
           \cup { ContentRow(p, "entry", clientID, TRUE) }
    ELSE rows

UpsertSetting(rows, p, settingType) ==
  rows \cup { ContentRow(p, "setting", settingType, FALSE) }

CreateFile(rows, p, name) == rows \cup { ContentRow(p, "file", name, FALSE) }

DeleteFileRow(rows, p, name) == rows \ { ContentRow(p, "file", name, FALSE) }

\* UPDATE clingy_pregnancies SET due_date = COALESCE($2, due_date), ... WHERE id = $1
UpdatePregnancy(pregs, p) == [ pregs EXCEPT ![p].profile = "edited" ]

\* the check every handler makes: if permission != "write" { Forbidden }
MayWrite_Always(permission) == TRUE

MayWrite(permission) == permission = "write"

\* the handler answers at once
Answer(userID, op, permission, result) ==
  [ IdleWrite EXCEPT !.pc = "done", !.user = userID, !.op = op,
                     !.permission = permission, !.result = result ]

\* the handler goes on to its writes
Proceed(userID, op, key, p, permission) ==
  [ pc |-> "apply", user |-> userID, op |-> op, key |-> key, pregnancy |-> p,
    permission |-> permission, result |-> NULL, body |-> NoBody ]

\* permission check after a successful resolution
Checked(userID, op, key, y) ==
  IF MayWrite(y.permission)
    THEN Proceed(userID, op, key, y.pregnancy, y.permission)
    ELSE Answer(userID, op, y.permission, "Forbidden")

\* the head of UpdatePregnancy, CreateEntry, BatchCreateEntries, DeleteEntry,
\* UpdateSetting and UploadFile: getAccessiblePregnancy, then the check
Guarded(w, userID, op, key) ==
  /\ write[w].pc = "idle"
  /\ IF getAccessiblePregnancy(userID) = {}
       THEN write' = [ write EXCEPT ![w] = Answer(userID, op, NULL, "NotFound") ]
       ELSE \E y \in getAccessiblePregnancy(userID) :
              write' = [ write EXCEPT ![w] = Checked(userID, op, key, y) ]
  /\ UNCHANGED << now, dbvars, redeem, pairingvars, content, access >>

UpdatePregnancyStart(w, userID) == Guarded(w, userID, "UpdatePregnancy", NULL)
CreateEntry(w, userID, clientID) == Guarded(w, userID, "CreateEntry", clientID)
BatchCreateEntries(w, userID) == Guarded(w, userID, "BatchCreateEntries", NULL)
DeleteEntryStart(w, userID, clientID) == Guarded(w, userID, "DeleteEntry", clientID)
UpdateSetting(w, userID, settingType) == Guarded(w, userID, "UpdateSetting", settingType)
UploadFile(w, userID, name) == Guarded(w, userID, "UploadFile", name)

\* Handler.UpdatePregnancyByID: GetPregnancyByID and the inline access check
UpdatePregnancyByID(w, userID, pregnancyID) ==
  /\ write[w].pc = "idle"
  /\ LET op == "UpdatePregnancyByID"
         row == pregnancies[pregnancyID]
     IN write' = [ write EXCEPT ![w] =
          IF pregnancyID \notin PregnancyIds
            THEN Answer(userID, op, NULL, "NotFound")
          ELSE IF row.owner_id = userID
            THEN Checked(userID, op, NULL,
                         [ pregnancy |-> pregnancyID, permission |-> "write" ])
          ELSE IF row.partner_id = userID /\ row.partner_status = "approved"
            THEN Checked(userID, op, NULL,
                         [ pregnancy |-> pregnancyID,
                           permission |-> OrRead(row.partner_permission) ])
          ELSE Answer(userID, op, "", "Forbidden") ]
  /\ UNCHANGED << now, dbvars, redeem, pairingvars, content, access >>

\* a table without the constraint accepts every insert
OwnerTaken_NoConstraint(ownerID) == FALSE

\* owner_id TEXT NOT NULL UNIQUE: an insert for this owner fails
OwnerTaken(ownerID) == GetPregnancyByOwner(ownerID) # {}

\* Handler.CreatePregnancy: db.CreatePregnancy, any error answered as internal
HandleCreatePregnancy(w, userID) ==
  /\ write[w].pc = "idle"
  /\ Len(pregnancies) < MaxPregnancies
  /\ IF OwnerTaken(userID)
       THEN /\ UNCHANGED pregnancies
            /\ write' = [ write EXCEPT ![w] =
                   [ IdleWrite EXCEPT !.pc = "done", !.user = userID,
                                      !.op = "CreatePregnancy", !.result = "Internal" ] ]
       ELSE /\ pregnancies' = Append(pregnancies, NewPregnancy(userID))
            /\ write' = [ write EXCEPT ![w] =
                   [ IdleWrite EXCEPT !.pc = "done", !.user = userID,
                                      !.op = "CreatePregnancy", !.result = "ok",
                                      !.pregnancy = Len(pregnancies) + 1,
                                      !.permission = "write" ] ]
  /\ UNCHANGED << now, invite_codes, supporters, code_attempts, redeem, pairingvars,
                  content, access >>

\* Handler.PostSync: a caller without access who sends a pregnancy goes on to
\* create one
PostSync(w, userID, hasPregnancy) ==
  /\ write[w].pc = "idle"
  /\ LET key == IF hasPregnancy THEN "pregnancy" ELSE NULL IN
       IF getAccessiblePregnancy(userID) = {} /\ hasPregnancy
         THEN /\ Len(pregnancies) < MaxPregnancies
              /\ write' = [ write EXCEPT ![w] =
                    [ IdleWrite EXCEPT !.pc = "create", !.user = userID,
                                       !.op = "PostSync", !.key = key ] ]
              /\ UNCHANGED pregnancies
       ELSE IF getAccessiblePregnancy(userID) = {}
         THEN /\ write' = [ write EXCEPT ![w] =
                    Answer(userID, "PostSync", NULL, "NotFound") ]
              /\ UNCHANGED pregnancies
       ELSE /\ \E y \in getAccessiblePregnancy(userID) :
                 write' = [ write EXCEPT ![w] = Checked(userID, "PostSync", key, y) ]
            /\ UNCHANGED pregnancies
  /\ UNCHANGED << now, invite_codes, supporters, code_attempts, redeem, pairingvars,
                  content, access >>

\* Handler.PostSync: db.CreatePregnancy for the caller found without access
PostSyncCreate(w) ==
  /\ write[w].pc = "create"
  /\ Len(pregnancies) < MaxPregnancies
  /\ IF OwnerTaken(write[w].user)
       THEN /\ UNCHANGED pregnancies
            /\ write' = [ write EXCEPT ![w].pc = "done", ![w].result = "Internal" ]
       ELSE /\ pregnancies' = Append(pregnancies, NewPregnancy(write[w].user))
            /\ write' = [ write EXCEPT ![w] =
                   Proceed(write[w].user, "PostSync", write[w].key,
                           Len(pregnancies) + 1, "write") ]
  /\ UNCHANGED << now, invite_codes, supporters, code_attempts, redeem, pairingvars,
                  content, access >>

\* Handler.DeleteFile: GetFile, getAccessiblePregnancy, the two checks
DeleteFile(w, userID, file) ==
  /\ write[w].pc = "idle"
  /\ LET op == "DeleteFile" IN
       IF file \notin content
         THEN write' = [ write EXCEPT ![w] = Answer(userID, op, NULL, "NotFound") ]
       ELSE IF getAccessiblePregnancy(userID) = {}
         THEN write' = [ write EXCEPT ![w] = Answer(userID, op, NULL, "Internal") ]
       ELSE \E y \in getAccessiblePregnancy(userID) :
              write' = [ write EXCEPT ![w] =
                IF y.pregnancy # file.pregnancy_id
                  THEN Answer(userID, op, y.permission, "Forbidden")
                  ELSE Checked(userID, op, file.key, y) ]
  /\ UNCHANGED << now, dbvars, redeem, pairingvars, content, access >>

\* the rows after the writes of a handler on pregnancy p
ContentAfter(op, p, key) ==
  CASE op = "CreateEntry" -> UpsertEntry(content, p, key)
    [] op = "BatchCreateEntries" -> UpsertEntry(UpsertEntry(content, p, "e1"), p, "e2")
    [] op = "DeleteEntry" -> DeleteEntry(content, p, key)
    [] op = "UpdateSetting" -> UpsertSetting(content, p, key)
    [] op = "PostSync" ->
         UpsertSetting(DeleteEntry(UpsertEntry(content, p, "e1"), p, "e2"), p, "s1")
    [] op = "UploadFile" -> CreateFile(content, p, key)
    [] op = "DeleteFile" -> DeleteFileRow(content, p, key)
    [] OTHER -> content

\* the store calls of a handler that passed its check, and its answer
WriteApply(w) ==
  /\ write[w].pc = "apply"
  /\ LET q == write[w]
         missing == /\ q.op = "DeleteEntry"
                    /\ ContentRow(q.pregnancy, "entry", q.key, FALSE) \notin content
     IN /\ content' = ContentAfter(q.op, q.pregnancy, q.key)
        /\ pregnancies' =
             IF \/ q.op \in { "UpdatePregnancy", "UpdatePregnancyByID" }
                \/ q.op = "PostSync" /\ q.key = "pregnancy"
               THEN UpdatePregnancy(pregnancies, q.pregnancy)
               ELSE pregnancies
        /\ write' = [ write EXCEPT ![w].pc = "done",
                         ![w].result = IF missing THEN "NotFound" ELSE "ok" ]
  /\ UNCHANGED << now, invite_codes, supporters, code_attempts, redeem, pairingvars,
                  access >>

\* the handler has answered and returns
WriteReturn(w) ==
  /\ write[w].pc = "done"
  /\ write' = [ write EXCEPT ![w] = IdleWrite ]
  /\ UNCHANGED << now, dbvars, redeem, pairingvars, content, access >>

(***************************************************************************)
(* The owner's management endpoints (auth.go) with their answers: each     *)
(* handler makes one store call and answers by its result.                 *)
(***************************************************************************)
\* the handler answers; key is the id or value the caller named
Replied(userID, op, key, result) ==
  [ IdleWrite EXCEPT !.pc = "done", !.user = userID, !.op = op, !.key = key,
                     !.result = result ]

\* Handler.SetPregnancyArchive: GetPregnancyByID, owner only, then
\* db.SetPregnancyArchive
HandleSetPregnancyArchive(w, userID, pregnancyID, archived) ==
  /\ write[w].pc = "idle"
  /\ LET op == "SetPregnancyArchive" IN
       IF pregnancyID \notin PregnancyIds
         THEN /\ write' = [ write EXCEPT ![w] = Replied(userID, op, archived, "NotFound") ]
              /\ UNCHANGED pregnancies
       ELSE IF pregnancies[pregnancyID].owner_id # userID
         THEN /\ write' = [ write EXCEPT ![w] = Replied(userID, op, archived, "Forbidden") ]
              /\ UNCHANGED pregnancies
       ELSE /\ pregnancies' = [ pregnancies EXCEPT ![pregnancyID].archived = archived ]
            /\ write' = [ write EXCEPT ![w] =
                  [ Replied(userID, op, archived, "ok") EXCEPT
                      !.pregnancy = pregnancyID, !.permission = "write" ] ]
  /\ UNCHANGED << now, invite_codes, supporters, code_attempts, redeem, pairingvars,
                  content, access >>

\* Handler.SetPregnancyOutcome up to the update: GetPregnancyByID, owner only,
\* not archived, a valid outcome
HandleSetPregnancyOutcome(w, userID, pregnancyID, outcome) ==
  /\ write[w].pc = "idle"
  /\ LET op == "SetPregnancyOutcome" IN
       write' = [ write EXCEPT ![w] =
         IF pregnancyID \notin PregnancyIds
           THEN Replied(userID, op, outcome, "NotFound")
         ELSE IF pregnancies[pregnancyID].owner_id # userID
           THEN Replied(userID, op, outcome, "Forbidden")
         ELSE IF pregnancies[pregnancyID].archived
           THEN Replied(userID, op, outcome, "Forbidden")
         ELSE IF outcome \notin { "ongoing", "birth", "miscarriage", "ectopic",
                                  "stillbirth" }
           THEN Replied(userID, op, outcome, "ValidationError")
         ELSE [ IdleWrite EXCEPT !.pc = "outcome", !.user = userID, !.op = op,
                                 !.key = outcome, !.pregnancy = pregnancyID,
                                 !.permission = "write" ] ]
  /\ UNCHANGED << now, dbvars, redeem, pairingvars, content, access >>

\* db.SetPregnancyOutcome: UPDATE ... SET outcome = $2 ... WHERE id = $1
SetPregnancyOutcome(w) ==
  /\ write[w].pc = "outcome"
  /\ pregnancies' = [ pregnancies EXCEPT ![write[w].pregnancy].outcome = write[w].key ]
  /\ write' = [ write EXCEPT ![w].pc = "done", ![w].result = "ok" ]
  /\ UNCHANGED << now, invite_codes, supporters, code_attempts, redeem, pairingvars,
                  content, access >>

\* Handler.RevokeInviteCode: ErrNotFound when the UPDATE matches no row
HandleRevokeInviteCode(w, userID, codeID) ==
  /\ write[w].pc = "idle"
  /\ IF RevokeMatches(codeID, userID)
       THEN /\ ~ RowLocked(codeID)
            /\ invite_codes' = [ invite_codes EXCEPT ![codeID].revoked_at = now ]
            /\ write' = [ write EXCEPT ![w] =
                              Replied(userID, "RevokeInviteCode", codeID, "ok") ]
       ELSE /\ UNCHANGED invite_codes
            /\ write' = [ write EXCEPT ![w] =
                              Replied(userID, "RevokeInviteCode", codeID, "NotFound") ]
  /\ UNCHANGED << now, pregnancies, supporters, code_attempts, redeem, pairingvars,
                  content, access >>

\* Handler.RemoveSupporter: ErrNotFound when the UPDATE matches no row
HandleRemoveSupporter(w, userID, supporterID) ==
  /\ write[w].pc = "idle"
  /\ IF RemoveSupporterMatches(supporterID, userID)
       THEN /\ supporters' = [ supporters EXCEPT ![supporterID].removed_at = now ]
            /\ write' = [ write EXCEPT ![w] =
                              Replied(userID, "RemoveSupporter", supporterID, "ok") ]
       ELSE /\ UNCHANGED supporters
            /\ write' = [ write EXCEPT ![w] =
                              Replied(userID, "RemoveSupporter", supporterID, "NotFound") ]
  /\ UNCHANGED << now, pregnancies, invite_codes, code_attempts, redeem, pairingvars,
                  content, access >>

\* Handler.RemovePairing: db.RemovePairing as owner first, then as partner
HandleRemovePairing(w, userID) ==
  /\ write[w].pc = "idle"
  /\ LET asOwner == { p \in PregnancyIds : /\ pregnancies[p].owner_id = userID
                                           /\ pregnancies[p].partner_id # NULL }
         asPartner == { p \in PregnancyIds : pregnancies[p].partner_id = userID }
         rows == IF asOwner # {} THEN asOwner ELSE asPartner
     IN /\ pregnancies' = [ p \in PregnancyIds |->
                              IF p \in rows THEN ClearPartner(pregnancies[p])
                                            ELSE pregnancies[p] ]
        /\ write' = [ write EXCEPT ![w] =
              Replied(userID, "RemovePairing", NULL,
                      IF rows = {} THEN "NotFound" ELSE "ok") ]
  /\ UNCHANGED << now, invite_codes, supporters, code_attempts, redeem, pairingvars,
                  content, access >>

\* the condition without owner_id = $2
PermissionMatches_AnyOwner(p, ownerID) == pregnancies[p].partner_id # NULL

\* WHERE owner_id = $2 AND partner_id IS NOT NULL
PermissionMatches(p, ownerID) ==
  /\ pregnancies[p].owner_id = ownerID
  /\ pregnancies[p].partner_id # NULL

\* Handler.UpdatePartnerPermission: the validation, db.UpdatePartnerPermission,
\* ErrNotFound when the UPDATE matches no row
HandleUpdatePartnerPermission(w, userID, permission) ==
  /\ write[w].pc = "idle"
  /\ LET op == "UpdatePartnerPermission"
         rows == { p \in PregnancyIds : PermissionMatches(p, userID) }
     IN IF permission # "read" /\ permission # "write"
          THEN /\ UNCHANGED pregnancies
               /\ write' = [ write EXCEPT ![w] =
                     Replied(userID, op, permission, "ValidationError") ]
          ELSE /\ pregnancies' = [ p \in PregnancyIds |->
                     IF p \in rows
                       THEN [ pregnancies[p] EXCEPT !.partner_permission = permission ]
                       ELSE pregnancies[p] ]
               /\ write' = [ write EXCEPT ![w] =
                     Replied(userID, op, permission,
                             IF rows = {} THEN "NotFound" ELSE "ok") ]
  /\ UNCHANGED << now, invite_codes, supporters, code_attempts, redeem, pairingvars,
                  content, access >>

\* no check of the partner slot
HasPartner_Never(role, pregnancy) == FALSE

\* req.Role == "father" && pregnancy.PartnerID.Valid
HasPartner(role, pregnancy) == role = "father" /\ pregnancy.partner_id # NULL

\* Handler.GenerateInviteCode up to the generation of the code: the owner's
\* pregnancy is read and the request validated
HandleGenerateInviteCode(w, userID, role, reqPermission) ==
  /\ write[w].pc = "idle"
  /\ Len(invite_codes) < MaxCodes
  /\ LET op == "GenerateInviteCode"
         permission == IF reqPermission = "" THEN "read" ELSE reqPermission
     IN IF GetPregnancyByOwner(userID) = {}
          THEN write' = [ write EXCEPT ![w] = Replied(userID, op, role, "Forbidden") ]
          ELSE \E p \in GetPregnancyByOwner(userID) :
                 write' = [ write EXCEPT ![w] =
                   IF role # "father" /\ role # "support"
                     THEN Replied(userID, op, role, "ValidationError")
                   ELSE IF HasPartner(role, pregnancies[p])
                     THEN Replied(userID, op, role, "Conflict")
                   ELSE IF permission # "read" /\ permission # "write"
                     THEN Replied(userID, op, role, "ValidationError")
                   ELSE [ pc |-> "save", user |-> userID, op |-> op, key |-> role,
                          pregnancy |-> p, permission |-> permission,
                          result |-> NULL, body |-> NoBody ] ]
  /\ UNCHANGED << now, dbvars, redeem, pairingvars, content, access >>

\* models.GenerateCodeResponse{Code: code, ExpiresAt: ..., Role: req.Role}
GenerateCodeResponse(code, expiresAt, role) ==
  [ kind |-> "GenerateCodeResponse", code |-> code, expiresAt |-> expiresAt,
    role |-> role ]

\* GenerateInviteCode, HashCode, db.CreateInviteCode and the answer Created
SaveInviteCode(w) ==
  /\ write[w].pc = "save"
  /\ LET sample == Len(invite_codes) + 1
         code == GeneratedCodes[sample]
         q == write[w]
     IN /\ sample \in 1..Len(RandomSamples)
        /\ sample \notin UsedSamples
        /\ invite_codes' = Append(invite_codes,
              NewInviteCode(q.pregnancy, HashCode(code, sample), GetCodePrefix(code),
                            q.key, q.permission, now + CodeExpiration))
        /\ write' = [ write EXCEPT ![w].pc = "done", ![w].result = "ok",
                         ![w].body = GenerateCodeResponse(code, now + CodeExpiration,
                                                          q.key) ]
  /\ UNCHANGED << now, pregnancies, supporters, code_attempts, redeem, pairingvars,
                  content, access >>

\* ORDER BY created_at DESC: the orders in which the store may return the rows
ActiveCodeLists(pregnancyID) ==
  LET rows == GetActiveInviteCodes(pregnancyID)
      n == Cardinality(rows)
  IN { s \in [ 1..n -> rows ] :
         /\ \A i, j \in 1..n : i # j => s[i] # s[j]
         /\ \A i, j \in 1..n :
              i < j => invite_codes[s[i]].created_at >= invite_codes[s[j]].created_at }

\* models.ActiveCodeInfo{ID, CodePrefix, Role, ExpiresAt, ExpiresIn}
ActiveCodeInfo(c) ==
  [ id |-> c, codePrefix |-> invite_codes[c].code_prefix,
    role |-> invite_codes[c].role, expiresAt |-> invite_codes[c].expires_at,
    expiresIn |-> invite_codes[c].expires_at - now ]

\* models.SupporterInfo{ID, UserID, DisplayName, JoinedAt, DisplayPartnerCard}
SupporterInfo(s) ==
  [ id |-> s, userId |-> supporters[s].user_id,
    displayName |-> supporters[s].display_name, joinedAt |-> supporters[s].joined_at,
    displayPartnerCard |-> supporters[s].display_partner_card ]

\* models.SharingStatus{Partner, Supporters, ActiveCodes}; partner is empty or
\* one models.PartnerInfo
SharingStatus(p, codes) ==
  [ kind |-> "SharingStatus",
    partner |-> IF pregnancies[p].partner_id = NULL THEN {}
                ELSE { [ id |-> pregnancies[p].partner_id,
                         permission |-> pregnancies[p].partner_permission,
                         displayPartnerCard |-> pregnancies[p].display_partner_card ] },
    supporters |-> { SupporterInfo(s) :
                       s \in { q \in SupporterIds :
                                 /\ supporters[q].pregnancy_id = p
                                 /\ supporters[q].removed_at = NULLT } },
    activeCodes |-> [ i \in 1..Len(codes) |-> ActiveCodeInfo(codes[i]) ] ]

\* Handler.GetSharingStatus: owner only; partner, supporters and active codes
HandleGetSharingStatus(w, userID) ==
  /\ write[w].pc = "idle"
  /\ IF GetPregnancyByOwner(userID) = {}
       THEN write' = [ write EXCEPT ![w] =
                         Replied(userID, "GetSharingStatus", NULL, "NotFound") ]
       ELSE \E p \in GetPregnancyByOwner(userID) :
              \E codes \in ActiveCodeLists(p) :
                write' = [ write EXCEPT ![w] =
                  [ Replied(userID, "GetSharingStatus", NULL, "ok") EXCEPT
                      !.pregnancy = p, !.body = SharingStatus(p, codes) ] ]
  /\ UNCHANGED << now, dbvars, redeem, pairingvars, content, access >>

\* time passes: almost the lifetime of a code at first, then half an hour
TickShare ==
  /\ now < CodeExpiration
  /\ now' = IF now = 0 THEN CodeExpiration - 1 ELSE now + 1
  /\ UNCHANGED << pregnancies, invite_codes, supporters, code_attempts, redeem, pairingvars,
               writevars >>

(***************************************************************************)
(* The codec on its own (invite.go): a code is generated from a draw of    *)
(* the random source and hashed; a text is normalized, validated and       *)
(* verified against that hash.                                             *)
(***************************************************************************)
\* the draws: every value of the first byte, with the other bytes of a sample
Draws ==
  { [ i \in 1..10 |-> IF i = 1 THEN b ELSE RandomSamples[k][i] ] :
      b \in 0..255, k \in 1..Len(RandomSamples) }

\* what a client may type for a code: the code itself, in lower case, without
\* separators, with doubled separators and blanks, with a tab behind it, with
\* its first character replaced, cut short
TypedTexts(code) ==
  { code, ToLower(code), ReplaceAll(code, "-"), TypedLoose(code),
    << " ", "-" >> \o code \o << "-", " " >>,
    code \o << "\t" >>,
    << "0" >> \o Tail(code), << "L" >> \o Tail(code), << "Z" >> \o Tail(code),
    SubSeq(code, 1, 9) }

\* GenerateInviteCode() on a draw, then HashCode(code)
CodecGenerate(w, randomBytes) ==
  /\ write[w].pc = "idle"
  /\ LET code == GenerateInviteCode(randomBytes) IN
       write' = [ write EXCEPT ![w] =
         [ IdleWrite EXCEPT !.pc = "codec", !.op = "GenerateInviteCode",
             !.body = [ kind |-> "code", code |-> code, hash |-> HashCode(code, 1) ] ] ]
  /\ UNCHANGED << now, dbvars, redeem, pairingvars, content, access >>

\* NormalizeCode, IsValidCodeFormat, GetCodePrefix and VerifyCode on a text
CodecVerify(w, text) ==
  /\ write[w].pc = "codec"
  /\ write' = [ write EXCEPT ![w].pc = "done", ![w].op = "VerifyCode",
       ![w].body = [ kind |-> "verify", code |-> write[w].body.code,
                     hash |-> write[w].body.hash, input |-> text,
                     normalized |-> NormalizeCode(text),
                     valid |-> IsValidCodeFormat(text),
                     prefix |-> GetCodePrefix(text),
                     match |-> VerifyCode(text, write[w].body.hash) ] ]
  /\ UNCHANGED << now, dbvars, redeem, pairingvars, content, access >>

(***************************************************************************)
(* The sharing engine with a working store: one owner issues codes, two    *)
(* other users redeem them.                                                *)
(***************************************************************************)
Owners == { "u1" }
Guests == { "u2", "u3" }

Next ==
  \/ \E u \in Owners : CreatePregnancy(u)
  \/ \E u \in Owners, role \in Roles, perm \in Permissions :
        GenerateCode(u, role, perm, Len(invite_codes) + 1)
  \/ \E r \in RedeemIds, u \in Guests, code \in IssuedTexts, e \in Emails :
        RedeemArrive(r, u, code, e, FALSE)
  \/ \E r \in RedeemIds : RedeemScan(r)
  \/ \E r \in RedeemIds : RedeemTxSelect(r)
  \/ \E r \in RedeemIds : RedeemTxWrite(r)
  \/ \E r \in RedeemIds : RedeemTxCommit(r)
  \/ \E r \in RedeemIds : RedeemRecord(r)
  \/ \E c \in CodeIds, u \in Users : RevokeInviteCode(c, u)
  \/ \E s \in SupporterIds, u \in Users : RemoveSupporter(s, u)
  \/ \E u \in Users : RemovePairing(u)

Spec == Init /\ [][Next]_vars

(***************************************************************************)
(* Properties of the sharing engine.                                       *)
(***************************************************************************)
\* the stored code a submitted text verifies against, whatever its state
CodesOfText(code) ==
  { c \in CodeIds : VerifyCode(code, invite_codes[c].code_hash) }

\* the requests that have their outcome and were made with the text of code c
Answered(c) ==
  { r \in RedeemIds : /\ redeem[r].result # NULL
                      /\ redeem[r].result # "RateLimited"
                      /\ c \in CodesOfText(redeem[r].code) }

Winners(c) == { r \in Answered(c) : redeem[r].result = "ok" }

\* C1: of the redemption calls made with one code, concurrent or not, by the
\* same or by different users, at most one succeeds, the stored redeemer is the
\* caller that succeeded, and every other call ends NotFound.
C1_OneWinner ==
  \A c \in CodeIds :
    /\ Cardinality(Winners(c)) <= 1
    /\ \A r \in Winners(c) : /\ redeem[r].matched = c
                              /\ invite_codes[c].redeemed_by = redeem[r].user
    /\ Winners(c) # {} =>
         \A r \in Answered(c) \ Winners(c) : redeem[r].result = "NotFound"

\* two calls raced for one code inside the transaction: one won, one lost
C1_Witness ==
  \E c \in CodeIds, r, q \in RedeemIds :
    /\ r # q
    /\ redeem[r].matched = c /\ redeem[r].result = "ok"
    /\ redeem[q].matched = c /\ redeem[q].result = "NotFound"
    /\ redeem[q].user # redeem[r].user

(***************************************************************************)
(* The same engine on a store whose statements can fail.                   *)
(***************************************************************************)
NextFault ==
  \/ Next
  \/ \E r \in RedeemIds : RedeemTxFail(r)

SpecFault == Init /\ [][NextFault]_vars

\* code c goes from unredeemed to redeemed in this step
Marked(c) ==
  /\ invite_codes[c].redeemed_at = NULLT
  /\ invite_codes'[c].redeemed_at # NULLT

\* after this step the redeemer of code c holds the role of the code
RoleHeld(c) ==
  LET p == invite_codes'[c].pregnancy_id
      u == invite_codes'[c].redeemed_by
  IN IF invite_codes'[c].role = "father"
       THEN /\ pregnancies'[p].partner_id = u
            /\ pregnancies'[p].partner_status = "approved"
       ELSE \E s \in 1..Len(supporters') :
              /\ supporters'[s].pregnancy_id = p
              /\ supporters'[s].user_id = u
              /\ supporters'[s].removed_at = NULLT

\* this step makes user u the partner of pregnancy p
PartnerGiven(p, u) ==
  /\ pregnancies'[p].partner_id = u
  /\ pregnancies[p].partner_id # u

\* this step adds or revives the supporter row s
SupporterGiven(s) ==
  /\ supporters'[s].removed_at = NULLT
  /\ s \in SupporterIds => supporters[s].removed_at # NULLT

\* some code of that role, pregnancy and user is marked in this step
MarkedFor(role, p, u) ==
  \E c \in CodeIds : /\ Marked(c)
                      /\ invite_codes[c].role = role
                      /\ invite_codes[c].pregnancy_id = p
                      /\ invite_codes'[c].redeemed_by = u

\* request r gets an outcome other than success in this step
Fails(r) ==
  /\ redeem[r].result = NULL
  /\ redeem'[r].result \notin { NULL, "ok" }

\* C2: a redemption is all-or-nothing.  A code becomes redeemed only in a step
\* that also gives its redeemer the role, a role is given only in a step that
\* marks a code of that role, pregnancy and user, and a step in which a
\* redemption fails changes no row.
C2_AllOrNothing ==
  [][ /\ \A c \in CodeIds : Marked(c) => RoleHeld(c)
      /\ \A p \in PregnancyIds, u \in Users :
            PartnerGiven(p, u) => MarkedFor("father", p, u)
      /\ \A s \in 1..Len(supporters') :
            SupporterGiven(s) =>
              MarkedFor("support", supporters'[s].pregnancy_id, supporters'[s].user_id)
      /\ \A r \in RedeemIds :
            Fails(r) => UNCHANGED << pregnancies, invite_codes, supporters >>
    ]_vars

\* a transaction failed after its writes and left the code unredeemed and the
\* role not given; a later call redeemed the same code
C2_Witness ==
  \E r, q \in RedeemIds :
    /\ redeem[r].result = "Internal" /\ redeem[r].pc = "done"
    /\ redeem[q].result = "ok"
    /\ redeem[q].matched = redeem[r].matched
    /\ invite_codes[redeem[q].matched].redeemed_by = redeem[q].user
    /\ redeem[q].user # redeem[r].user

(***************************************************************************)
(* The legacy pairing flow: u1 owns a pregnancy, u2 does not; u2 and u3    *)
(* ask to be paired and the targets answer.                                *)
(***************************************************************************)
InitPairing ==
  /\ now = 0
  /\ pregnancies = << >>
  /\ invite_codes = << >>
  /\ supporters = << >>
  /\ code_attempts = EmptyBag
  /\ redeem = << >>
  /\ pairing_requests = << >>
  /\ approve = [ a \in 1..MaxApproves |-> IdleApprove ]
  /\ content = {}
  /\ write = << >>
  /\ access = NoAccess

NextPairing ==
  \/ \E u \in Owners : CreatePregnancy(u)
  \/ \E u \in Guests, email \in TargetEmails : CreatePairingRequest(u, email)
  \/ \E a \in ApproveIds, u \in { "u1", "u2" }, id \in 1..MaxRequests,
         perm \in Permissions \cup { "owner" } : ApproveSelect(a, u, id, perm)
  \/ \E a \in ApproveIds : ApproveUpdateRequest(a)
  \/ \E a \in ApproveIds : ApproveCommit(a)
  \/ \E id \in RequestIds, u \in { "u1", "u2" } : DenyPairingRequest(id, u)
  \/ \E u \in Owners, perm \in Permissions : UpdatePartnerPermission(u, perm)
  \/ \E u \in Users : RemovePairing(u)
  \/ TickHalfHour

SpecPairing == InitPairing /\ [][NextPairing]_vars

\* call a returns success in this step
Approves(a) == approve[a].result = NULL /\ approve'[a].result = "ok"

\* C3: when approve returns success the request is approved with the chosen
\* permission and, in the same step, the pregnancy owned by the target has the
\* requester as approved partner with that permission.
C3_ApprovePairs ==
  [][ \A a \in ApproveIds :
        Approves(a) =>
          LET id == approve[a].request
              req == pairing_requests'[id]
          IN /\ req.status = "approved"
             /\ req.permission = approve[a].permission
             /\ \E p \in PregnancyIds :
                  /\ pregnancies'[p].owner_id = req.target_id
                  /\ pregnancies'[p].partner_id = req.requester_id
                  /\ pregnancies'[p].partner_status = "approved"
                  /\ pregnancies'[p].partner_permission = approve[a].permission
    ]_vars

\* C4: a request that is approved or denied never changes again
C4_OneWay ==
  [][ \A id \in RequestIds :
        pairing_requests[id].status # "pending" =>
          pairing_requests'[id] = pairing_requests[id]
    ]_vars

(***************************************************************************)
(* The rate limiter: one request after the other, by two users, with a     *)
(* valid code, an unissued code and a malformed text, while time passes.   *)
(***************************************************************************)
InitRate ==
  /\ now = 0
  /\ pregnancies = << >>
  /\ invite_codes = << >>
  /\ supporters = << >>
  /\ code_attempts = EmptyBag
  /\ redeem = << IdleRedeem >>
  /\ pairing_requests = << >>
  /\ approve = << >>
  /\ content = {}
  /\ write = << >>
  /\ access = NoAccess

RateTexts == { Text1, UnissuedText, BadFormatText }

NextRate ==
  \/ \E u \in Owners : CreatePregnancy(u)
  \/ \E u \in Owners : GenerateCode(u, "support", "read", 1)
  \/ \E r \in RedeemIds, u \in Guests, code \in RateTexts :
        /\ \/ BagCardinality(code_attempts) < MaxAttempts
           \/ RateLimited(FALSE, CountRecentCodeAttempts(u))
        /\ RedeemArrive(r, u, code, otherEmail, FALSE)
  \/ \E r \in RedeemIds : RedeemScan(r)
  \/ \E r \in RedeemIds : RedeemTxSelect(r)
  \/ \E r \in RedeemIds : RedeemTxWrite(r)
  \/ \E r \in RedeemIds : RedeemTxCommit(r)
  \/ \E r \in RedeemIds : RedeemRecord(r)
  \/ \E r \in RedeemIds : RedeemReturn(r)
  \/ TickHalfHour

SpecRate == InitRate /\ [][NextRate]_vars

\* the failed attempts of a user recorded less than an hour ago, as a bag
RecentFailures(u) ==
  LET rows == { a \in BagToSet(code_attempts) :
                  /\ a.user_id = u
                  /\ ~ a.success
                  /\ now - a.attempted_at < 2 }
  IN [ a \in rows |-> code_attempts[a] ]

\* request r arrives in this step
Arrives(r) == redeem[r].pc = "idle" /\ redeem'[r].pc # "idle"

PartnerOptions1 ==
  { << NULL, NULL, NULL >>, << "u3", "pending", NULL >> }
  \cup { << "u3", "approved", perm >> : perm \in Permissions \cup { NULL } }

PartnerOptions2 ==
  { << NULL, NULL, NULL >>, << "u1", "approved", "write" >>,
    << "u3", "approved", "read" >> }

WithGrants(ownerID, partner, coownerID) ==
  [ NewPregnancy(ownerID) EXCEPT !.partner_id = partner[1],
                                 !.partner_status = partner[2],
                                 !.partner_permission = partner[3],
                                 !.coowner_id = coownerID ]

SupporterRow(p, userID, permission, removedAt) ==
  [ pregnancy_id |-> p, user_id |-> userID, display_name |-> DisplayNameOf(userID),
    permission |-> permission, joined_at |-> 0, invited_via_code_id |-> 0,
    removed_at |-> removedAt, display_partner_card |-> TRUE ]

\* no row, or one row of (pregnancy 1, u3) in each shape
SupporterOptions1 ==
  { << >> } \cup { << SupporterRow(1, "u3", perm, removedAt) >> :
                     perm \in Permissions \cup { NULL }, removedAt \in { NULLT, 0 } }

SupporterOptions2 == { << >>, << SupporterRow(2, "u1", "read", NULLT) >> }

SupporterOptions3 == { << >>, << SupporterRow(2, "u3", "write", NULLT) >> }

InitResolve ==
  /\ now = 0
  /\ \E partner1 \in PartnerOptions1, coowner1 \in { NULL, "u3" },
        partner2 \in PartnerOptions2, coowner2 \in { NULL, "u1", "u3" } :
        pregnancies = << WithGrants("u1", partner1, coowner1),
                         WithGrants("u2", partner2, coowner2) >>
  /\ invite_codes = << >>
  /\ \E s1 \in SupporterOptions1, s2 \in SupporterOptions2, s3 \in SupporterOptions3 :
        supporters = s1 \o s2 \o s3
  /\ code_attempts = EmptyBag
  /\ redeem = << >>
  /\ pairing_requests = << >>
  /\ approve = << >>
  /\ content = {}
  /\ write = << >>
  /\ access = NoAccess

NextResolve == \E u \in Users : ResolveAccess(u)

SpecResolve == InitResolve /\ [][NextResolve]_vars

Owned(u) == { p \in PregnancyIds : pregnancies[p].owner_id = u }
Coowned(u) == { p \in PregnancyIds : pregnancies[p].coowner_id = u }
Partnered(u) ==
  { p \in PregnancyIds : /\ pregnancies[p].partner_id = u
                         /\ pregnancies[p].partner_status = "approved" }
Supporting(u) ==
  { s \in SupporterIds : supporters[s].user_id = u /\ supporters[s].removed_at = NULLT }

\* the answer names one of the pregnancies ps with role and permission
Answers(ps, role, permission) ==
  /\ access.found
  /\ access.granted.pregnancy \in ps
  /\ access.granted.permission = permission
  /\ access.role = role
  /\ access.pregnancy \in ps
  /\ access.permission = permission

\* the answered permission is the stored one, read when none is stored
StoredAs(stored, answered) ==
  \/ stored # NULL /\ answered = stored
  \/ stored = NULL /\ answered = "read"

\* C6: access is resolved as owner, else co-owner, else approved partner, else
\* active supporter, and the first match wins: an owner gets the owned
\* pregnancy with write whatever else the user is, a co-owner gets write before
\* any partner or supporter grant, a partner or supporter gets a stored
\* permission (read when unset), and NotFound is the answer only when none
\* of the four matches.
C6_FirstMatchWins ==
  LET u == access.user IN
    u # NULL =>
      IF Owned(u) # {} THEN Answers(Owned(u), "owner", "write")
      ELSE IF Coowned(u) # {} THEN Answers(Coowned(u), "coowner", "write")
      ELSE IF Partnered(u) # {} THEN
        /\ access.found
        /\ access.granted.pregnancy \in Partnered(u)
        /\ StoredAs(pregnancies[access.granted.pregnancy].partner_permission,
                    access.granted.permission)
        /\ access.role = "father"
        /\ access.pregnancy \in Partnered(u)
        /\ StoredAs(pregnancies[access.pregnancy].partner_permission, access.permission)
      ELSE IF Supporting(u) # {} THEN
        /\ access.found
        /\ access.granted.pregnancy \in { supporters[s].pregnancy_id : s \in Supporting(u) }
        /\ \E s \in Supporting(u) :
              StoredAs(supporters[s].permission, access.granted.permission)
        /\ access.role = "support"
        /\ access.pregnancy \in { supporters[s].pregnancy_id : s \in Supporting(u) }
        /\ \E s \in Supporting(u) : StoredAs(supporters[s].permission, access.permission)
      ELSE ~ access.found /\ access.role = ""

\* an owner who is also co-owner, approved partner and active supporter of
\* the other pregnancy was resolved as owner of the own one
C6_Witness ==
  /\ access.user = "u1"
  /\ Coowned("u1") # {} /\ Partnered("u1") # {} /\ Supporting("u1") # {}
  /\ access.found /\ access.granted.pregnancy = 1
  /\ access.granted.permission = "write"

(***************************************************************************)
(* The mutating endpoints after u1 created a pregnancy and issued a father *)
(* code, redeemed by u2, and a support code, redeemed by u3.               *)
(***************************************************************************)
IssuedAndRedeemed(perm) ==
  LET father == NewInviteCode(1, HashCode(GeneratedCodes[1], 1),
                              GetCodePrefix(GeneratedCodes[1]), "father", perm,
                              CodeExpiration)
      support == NewInviteCode(1, HashCode(GeneratedCodes[2], 2),
                               GetCodePrefix(GeneratedCodes[2]), "support", "read",
                               CodeExpiration)
  IN MarkRedeemed(MarkRedeemed(<< father, support >>, 1, "u2", 0), 2, "u3", 0)

InitWrite ==
  /\ now = 0
  /\ \E perm \in Permissions :
        /\ pregnancies = SetPartner(<< NewPregnancy("u1") >>, 1, "u2", perm,
                                    DisplayNameOf("u2"), FALSE)
        /\ invite_codes = IssuedAndRedeemed(perm)
  /\ supporters = UpsertSupporter(<< >>, 1, "u3", DisplayNameOf("u3"), 2, FALSE, 0)
  /\ code_attempts = SetToBag({ [ user_id |-> "u2", attempted_at |-> 0, success |-> TRUE ],
                                [ user_id |-> "u3", attempted_at |-> 0, success |-> TRUE ] })
  /\ redeem = << >>
  /\ pairing_requests = << >>
  /\ approve = << >>
  /\ content = {}
  /\ write = << IdleWrite >>
  /\ access = NoAccess

FileRecords == { ContentRow(p, "file", "f1", FALSE) : p \in 1..MaxPregnancies }

NextWrite ==
  \/ \E w \in WriteIds, u \in Users : UpdatePregnancyStart(w, u)
  \/ \E w \in WriteIds, u \in Users, id \in 1..MaxPregnancies :
        UpdatePregnancyByID(w, u, id)
  \/ \E w \in WriteIds, u \in Users : CreateEntry(w, u, "e1")
  \/ \E w \in WriteIds, u \in Users : BatchCreateEntries(w, u)
  \/ \E w \in WriteIds, u \in Users : DeleteEntryStart(w, u, "e1")
  \/ \E w \in WriteIds, u \in Users : UpdateSetting(w, u, "s1")
  \/ \E w \in WriteIds, u \in Users, hasPregnancy \in BOOLEAN :
        PostSync(w, u, hasPregnancy)
  \/ \E w \in WriteIds : PostSyncCreate(w)
  \/ \E w \in WriteIds, u \in Users : UploadFile(w, u, "f1")
  \/ \E w \in WriteIds, u \in Users, file \in FileRecords : DeleteFile(w, u, file)
  \/ \E w \in WriteIds : WriteApply(w)
  \/ \E w \in WriteIds : WriteReturn(w)
  \/ \E u \in Owners, perm \in Permissions : UpdatePartnerPermission(u, perm)
  \/ \E u \in Owners : RemovePairing(u)
  \/ \E s \in SupporterIds, u \in Owners : RemoveSupporter(s, u)

SpecWrite == InitWrite /\ [][NextWrite]_vars

\* the profile fields of the stored pregnancies
Profiles(pregs) == [ p \in PregnancyIds |-> pregs[p].profile ]

\* call w is answered Forbidden at once in this step
Refused(w) ==
  /\ write[w].pc = "idle"
  /\ write'[w].pc = "done"
  /\ write'[w].result = "Forbidden"

\* call w resolves the caller's access in this step, with that permission
Resolves(w, permission) ==
  /\ write[w].pc = "idle"
  /\ write'[w].pc # "idle"
  /\ write'[w].permission = permission

\* call w makes its writes in this step
Writes(w) == write[w].pc = "apply" /\ write'[w].pc = "done"

\* C7: a call of a mutating endpoint whose resolved permission is read is
\* answered Forbidden and changes nothing, and an entry, setting, file record
\* or profile field changes only in the write step of a call whose resolved
\* permission is write.
C7_ReadNeverWrites ==
  [][ /\ \A w \in WriteIds :
            Resolves(w, "read") =>
              /\ Refused(w)
              /\ UNCHANGED << content, pregnancies >>
      /\ \/ content' # content
         \/ Profiles(pregnancies') # Profiles(pregnancies)
         => \E w \in WriteIds : Writes(w) /\ write[w].permission = "write"
    ]_vars

\* the supporter was refused after the owner had written an entry
C7_Witness ==
  \E w \in WriteIds :
    /\ write[w].result = "Forbidden"
    /\ write[w].permission = "read"
    /\ write[w].user = "u3"
    /\ write[w].op = "PostSync"
    /\ ContentRow(1, "entry", "e1", FALSE) \in content

(***************************************************************************)
(* What a redemption grants (checked under Spec).                          *)
(***************************************************************************)
\* request r succeeds in this step
Succeeds(r) == redeem[r].result = NULL /\ redeem'[r].result = "ok"

\* u is neither owner, co-owner, partner nor active supporter of any pregnancy
NoRelationship(u) ==
  /\ Owned(u) = {} /\ Coowned(u) = {} /\ Supporting(u) = {}
  /\ \A p \in PregnancyIds : pregnancies[p].partner_id # u

\* what the resolvers answer after this step
RoleAfter(u) == GetMyRole(u)'
AccessAfter(u) == getAccessiblePregnancy(u)'

\* C8: when a user with a non-admin email and no other relationship redeems a
\* code of pregnancy A, role R and stored permission P, the call returns A and P
\* and right afterwards the user resolves to A with role R and permission P.
C8_GrantIsResolved ==
  [][ \A r \in RedeemIds :
        ( /\ Succeeds(r)
          /\ redeem[r].email # adminEmail
          /\ NoRelationship(redeem[r].user) ) =>
          LET code == invite_codes[redeem[r].matched]
              A == code.pregnancy_id
              P == code.permission
          IN /\ redeem'[r].pregnancy = A
             /\ redeem'[r].permission = P
             /\ AccessAfter(redeem[r].user) = { [ pregnancy |-> A, permission |-> P ] }
             /\ RoleAfter(redeem[r].user) =
                  { [ role |-> code.role, permission |-> P, pregnancy |-> A ] }
    ]_vars

\* the partner or supporter row a redemption of code c by user u results in
DisplayFlagAfter(c, u) ==
  LET code == invite_codes[c] IN
    IF code.role = "father"
      THEN { pregnancies'[code.pregnancy_id].display_partner_card }
      ELSE { supporters'[s].display_partner_card :
               s \in { q \in 1..Len(supporters') :
                         /\ supporters'[q].pregnancy_id = code.pregnancy_id
                         /\ supporters'[q].user_id = u } }

StoredPermissionAfter(c, u) ==
  LET code == invite_codes[c] IN
    IF code.role = "father"
      THEN { pregnancies'[code.pregnancy_id].partner_permission }
      ELSE { supporters'[s].permission :
               s \in { q \in 1..Len(supporters') :
                         /\ supporters'[q].pregnancy_id = code.pregnancy_id
                         /\ supporters'[q].user_id = u } }

\* C9: a redemption with the admin email returns write and leaves the row it
\* results in with the display-card flag false and the stored permission
\* write, for both roles and whatever the code's permission; a redeemer without
\* another relationship then resolves with write.
C9_AdminGetsWrite ==
  [][ \A r \in RedeemIds :
        (Succeeds(r) /\ redeem[r].email = adminEmail) =>
          /\ redeem'[r].permission = "write"
          /\ DisplayFlagAfter(redeem[r].matched, redeem[r].user) = { FALSE }
          /\ StoredPermissionAfter(redeem[r].matched, redeem[r].user) = { "write" }
          /\ NoRelationship(redeem[r].user) =>
               \A y \in AccessAfter(redeem[r].user) : y.permission = "write"
    ]_vars

\* code c is redeemed or revoked
Spent(c) ==
  invite_codes[c].redeemed_at # NULLT \/ invite_codes[c].revoked_at # NULLT

\* request r, past the rate limiter, gets its outcome in this step
Decided(r) ==
  /\ redeem[r].pc # "idle"
  /\ redeem[r].result = NULL
  /\ redeem'[r].result # NULL

\* C10: a redeemed or revoked code keeps its marks, is never in the active set
\* again, and every later redemption attempt made with it ends NotFound.
C10_SpentForGood ==
  [][ \A c \in CodeIds :
        /\ invite_codes[c].redeemed_at # NULLT =>
             /\ invite_codes'[c].redeemed_at = invite_codes[c].redeemed_at
             /\ invite_codes'[c].redeemed_by = invite_codes[c].redeemed_by
        /\ invite_codes[c].revoked_at # NULLT =>
             invite_codes'[c].revoked_at = invite_codes[c].revoked_at
        /\ Spent(c) =>
             /\ c \notin FindActiveInviteCodes'
             /\ \A r \in RedeemIds :
                   (Decided(r) /\ c \in CodesOfText(redeem[r].code)) =>
                     redeem'[r].result = "NotFound"
    ]_vars

\* a code was redeemed, and a later attempt with its text found no code
C10_Witness ==
  \E c \in CodeIds, r, q \in RedeemIds :
    /\ invite_codes[c].redeemed_at # NULLT
    /\ redeem[r].result = "ok" /\ redeem[r].matched = c
    /\ c \in CodesOfText(redeem[q].code)
    /\ redeem[q].matched = 0
    /\ redeem[q].result = "NotFound"

(***************************************************************************)
(* Expiry: u1 created a pregnancy and issued a code at time 0; the clock    *)
(* now stands shortly before the expiry time of that code.                 *)
(***************************************************************************)
InitExpiry ==
  /\ now = CodeExpiration - MaxTicks
  /\ pregnancies = << NewPregnancy("u1") >>
  /\ \E role \in Roles, perm \in Permissions :
        invite_codes =
          << [ NewInviteCode(1, HashCode(GeneratedCodes[1], 1),
                             GetCodePrefix(GeneratedCodes[1]), role, perm,
                             CodeExpiration) EXCEPT !.created_at = 0 ] >>
  /\ supporters = << >>
  /\ code_attempts = EmptyBag
  /\ redeem = [ r \in 1..MaxRedeems |-> IdleRedeem ]
  /\ pairing_requests = << >>
  /\ approve = << >>
  /\ content = {}
  /\ write = << >>
  /\ access = NoAccess

NextExpiry ==
  \/ \E r \in RedeemIds, u \in Guests, e \in Emails :
        RedeemArrive(r, u, Text1, e, FALSE)
  \/ \E r \in RedeemIds : RedeemScan(r)
  \/ \E r \in RedeemIds : RedeemTxSelect(r)
  \/ \E r \in RedeemIds : RedeemTxWrite(r)
  \/ \E r \in RedeemIds : RedeemTxCommit(r)
  \/ \E r \in RedeemIds : RedeemRecord(r)
  \/ TickExpiry

SpecExpiry == InitExpiry /\ [][NextExpiry]_vars

\* every stored code the text of request r verifies against has expired
ExpiredFor(r) ==
  /\ CodesOfText(redeem[r].code) # {}
  /\ \A c \in CodesOfText(redeem[r].code) : invite_codes[c].expires_at <= now

\* request r runs its scan of the active codes or its locked re-check in this step
Looks(r) ==
  /\ redeem[r].pc \in { "scan", "tx_begin" }
  /\ redeem'[r].pc # redeem[r].pc

\* C11: a code whose expiry time is not later than the current time is never
\* redeemed.  A code is marked redeemed only with a time before its expiry time,
\* and an attempt whose scan or whose locked re-check inside the transaction
\* runs when the code has expired ends NotFound and changes no code, pregnancy
\* or supporter row.
C11_ExpiredNeverRedeemed ==
  [][ /\ \A c \in CodeIds :
            Marked(c) => invite_codes'[c].redeemed_at < invite_codes[c].expires_at
      /\ \A r \in RedeemIds :
            (Looks(r) /\ ExpiredFor(r)) =>
              /\ redeem'[r].result = "NotFound"
              /\ UNCHANGED << invite_codes, pregnancies, supporters >>
    ]_vars

\* the code was found by the scan, expired before the locked re-check, and the
\* attempt ended NotFound with the code unredeemed and nobody paired
C11_Witness ==
  \E r \in RedeemIds :
    /\ redeem[r].result = "NotFound"
    /\ redeem[r].matched = 1
    /\ invite_codes[1].redeemed_at = NULLT
    /\ invite_codes[1].revoked_at = NULLT
    /\ invite_codes[1].expires_at <= now
    /\ pregnancies[1].partner_id = NULL
    /\ supporters = << >>

(***************************************************************************)
(* Management: u1 and u2 own a pregnancy each and issue codes, u2 and u3   *)
(* redeem them, and every user calls the management endpoints with ids     *)
(* that exist and ids that do not.                                         *)
(***************************************************************************)
InitManage ==
  /\ now = 0
  /\ pregnancies = << NewPregnancy("u1"), NewPregnancy("u2") >>
  /\ invite_codes = << >>
  /\ supporters = << >>
  /\ code_attempts = EmptyBag
  /\ redeem = << IdleRedeem >>
  /\ pairing_requests = << >>
  /\ approve = << >>
  /\ content = {}
  /\ write = << IdleWrite >>
  /\ access = NoAccess

NextManage ==
  \/ \E w \in WriteIds, u \in Users, role \in Roles, perm \in { "", "write" } :
        HandleGenerateInviteCode(w, u, role, perm)
  \/ \E w \in WriteIds : SaveInviteCode(w)
  \/ \E r \in RedeemIds, u \in Guests, code \in IssuedTexts :
        /\ BagCardinality(code_attempts) < MaxRedeems
        /\ RedeemArrive(r, u, code, otherEmail, FALSE)
  \/ \E r \in RedeemIds : RedeemScan(r)
  \/ \E r \in RedeemIds : RedeemTxSelect(r)
  \/ \E r \in RedeemIds : RedeemTxWrite(r)
  \/ \E r \in RedeemIds : RedeemTxCommit(r)
  \/ \E r \in RedeemIds : RedeemRecord(r)
  \/ \E r \in RedeemIds : RedeemReturn(r)
  \/ \E w \in WriteIds, u \in Users, c \in 1..(MaxCodes + 1) :
        HandleRevokeInviteCode(w, u, c)
  \/ \E w \in WriteIds, u \in Users, s \in 1..(MaxCodes + 1) :
        HandleRemoveSupporter(w, u, s)
  \/ \E w \in WriteIds, u \in Users : HandleRemovePairing(w, u)
  \/ \E w \in WriteIds : WriteReturn(w)

SpecManage == InitManage /\ [][NextManage]_vars

\* call w of endpoint op is made in this step
Calls(w, op) == write[w].pc = "idle" /\ write'[w].op = op

\* code c exists, belongs to a pregnancy owned by u, and is neither redeemed
\* nor revoked
Revocable(c, u) ==
  /\ c \in CodeIds
  /\ pregnancies[invite_codes[c].pregnancy_id].owner_id = u
  /\ invite_codes[c].redeemed_at = NULLT
  /\ invite_codes[c].revoked_at = NULLT

\* C12: revoke(codeId, caller) succeeds exactly when the code belongs to a
\* pregnancy owned by the caller and is neither redeemed nor revoked, and then
\* marks that code revoked and nothing else; a call by a non-owner, on a redeemed
\* code, on a revoked code or on an unknown id is answered NotFound in every
\* case and leaves every record unchanged.
C12_RevokeOpaque ==
  [][ \A w \in WriteIds :
        Calls(w, "RevokeInviteCode") =>
          LET c == write'[w].key
              u == write'[w].user
          IN IF Revocable(c, u)
               THEN /\ write'[w].result = "ok"
                    /\ invite_codes' = [ invite_codes EXCEPT ![c].revoked_at = now ]
                    /\ UNCHANGED << pregnancies, supporters, code_attempts,
                                    pairing_requests, content >>
               ELSE /\ write'[w].result = "NotFound"
                    /\ UNCHANGED << invite_codes, pregnancies, supporters,
                                    code_attempts, pairing_requests, content >>
    ]_vars

\* the owner of the pregnancy asked to revoke a code that was already redeemed
C12_Witness ==
  \E w \in WriteIds :
    /\ write[w].op = "RevokeInviteCode"
    /\ write[w].result = "NotFound"
    /\ write[w].key \in CodeIds
    /\ invite_codes[write[w].key].redeemed_at # NULLT
    /\ invite_codes[write[w].key].revoked_at = NULLT
    /\ pregnancies[invite_codes[write[w].key].pregnancy_id].owner_id = write[w].user

\* the pregnancy owned by u has an approved partner
OwnsWithPartner(u) ==
  \E p \in PregnancyIds : /\ pregnancies[p].owner_id = u
                          /\ pregnancies[p].partner_id # NULL
                          /\ pregnancies[p].partner_status = "approved"

\* C13: issuing a father-role code for a pregnancy that has an approved partner
\* is answered Conflict and creates no code; issuing a support-role code by an
\* owner is never answered Conflict and goes on to create the code, whatever
\* partner and supporters exist; a code is created only by a call that was not
\* refused.
C13_FatherConflict ==
  [][ /\ \A w \in WriteIds :
            Calls(w, "GenerateInviteCode") =>
              LET u == write'[w].user
                  role == write'[w].key
              IN /\ (role = "father" /\ OwnsWithPartner(u)) =>
                       /\ write'[w].result = "Conflict"
                       /\ write'[w].pc = "done"
                       /\ UNCHANGED invite_codes
                 /\ role = "support" =>
                       /\ write'[w].result # "Conflict"
                       /\ Owned(u) # {} => write'[w].pc = "save"
      /\ invite_codes' # invite_codes /\ Len(invite_codes') > Len(invite_codes) =>
            \E w \in WriteIds : /\ write[w].pc = "save"
                                /\ write[w].result = NULL
                                /\ write'[w].result = "ok"
                                /\ invite_codes'[Len(invite_codes')].role = write[w].key
    ]_vars

\* a father code was refused with Conflict for a pregnancy whose partner came
\* by an earlier father code
C13_Witness ==
  \E w \in WriteIds, c \in CodeIds :
    /\ write[w].op = "GenerateInviteCode"
    /\ write[w].key = "father"
    /\ write[w].result = "Conflict"
    /\ OwnsWithPartner(write[w].user)
    /\ invite_codes[c].role = "father" /\ invite_codes[c].redeemed_at # NULLT
    /\ pregnancies[invite_codes[c].pregnancy_id].owner_id = write[w].user

(***************************************************************************)
(* Supporter rows (checked under Spec).                                    *)
(***************************************************************************)
\* the supporter rows of user u on pregnancy p, in the store rows
RowsOf(rows, p, u) ==
  { s \in 1..Len(rows) : rows[s].pregnancy_id = p /\ rows[s].user_id = u }

\* at most one supporter row per (pregnancy, user)
OneRowPerPair ==
  \A p \in PregnancyIds, u \in Users : Cardinality(RowsOf(supporters, p, u)) <= 1

\* C14: there is at most one supporter row per (pregnancy, user) pair, and a
\* successful redemption of a support code by a user who already has a row on
\* that pregnancy, active or removed, adds no row and leaves that row active,
\* also when two such redemptions run concurrently.
C14_OneSupporterRow ==
  /\ []OneRowPerPair
  /\ [][ \A r \in RedeemIds :
           ( /\ Succeeds(r)
             /\ invite_codes[redeem[r].matched].role = "support" ) =>
             LET p == invite_codes[redeem[r].matched].pregnancy_id
                 u == redeem[r].user
             IN /\ RowsOf(supporters, p, u) # {} =>
                     /\ Len(supporters') = Len(supporters)
                     /\ RowsOf(supporters', p, u) = RowsOf(supporters, p, u)
                /\ \A s \in RowsOf(supporters', p, u) : supporters'[s].removed_at = NULLT
       ]_vars

\* one user redeemed two support codes of one pregnancy in concurrent calls
\* and has one row
C14_Witness ==
  \E r, q \in RedeemIds :
    /\ r # q
    /\ redeem[r].result = "ok" /\ redeem[q].result = "ok"
    /\ redeem[r].user = redeem[q].user
    /\ redeem[r].matched # redeem[q].matched
    /\ redeem[r].pc = "record" /\ redeem[q].pc = "record"
    /\ invite_codes[redeem[r].matched].role = "support"
    /\ invite_codes[redeem[q].matched].role = "support"
    /\ Len(supporters) = 1

(***************************************************************************)
(* Pregnancy creation: every user creates a pregnancy directly or by a     *)
(* first sync, in concurrent calls.                                        *)
(***************************************************************************)
InitCreate ==
  /\ now = 0
  /\ pregnancies = << >>
  /\ invite_codes = << >>
  /\ supporters = << >>
  /\ code_attempts = EmptyBag
  /\ redeem = << >>
  /\ pairing_requests = << >>
  /\ approve = << >>
  /\ content = {}
  /\ write = [ w \in 1..MaxWrites |-> IdleWrite ]
  /\ access = NoAccess

NextCreate ==
  \/ \E w \in WriteIds, u \in Users : HandleCreatePregnancy(w, u)
  \/ \E w \in WriteIds, u \in Users, hasPregnancy \in BOOLEAN :
        PostSync(w, u, hasPregnancy)
  \/ \E w \in WriteIds : PostSyncCreate(w)
  \/ \E w \in WriteIds : WriteApply(w)
  \/ \E w \in WriteIds : WriteReturn(w)

SpecCreate == InitCreate /\ [][NextCreate]_vars

\* call w runs its insert into the pregnancies table in this step
Inserts(w) ==
  \/ Calls(w, "CreatePregnancy")
  \/ write[w].pc = "create" /\ write'[w].pc # "create"

InitRecord ==
  /\ now = 0
  /\ pregnancies = << NewPregnancy("u1") >>
  /\ invite_codes =
       << NewInviteCode(1, HashCode(GeneratedCodes[1], 1),
                        GetCodePrefix(GeneratedCodes[1]), "support", "read",
                        CodeExpiration) >>
  /\ supporters = << >>
  /\ code_attempts =
       [ a \in { [ user_id |-> "u2", attempted_at |-> 0, success |-> FALSE ] } |->
           RateLimit - 1 ]
  /\ redeem = [ r \in 1..MaxRedeems |-> IdleRedeem ]
  /\ pairing_requests = << >>
  /\ approve = << >>
  /\ content = {}
  /\ write = << >>
  /\ access = NoAccess

NextRecord ==
  \/ \E r \in RedeemIds, u \in Guests, code \in RateTexts :
        RedeemArrive(r, u, code, otherEmail, FALSE)
  \/ \E r \in RedeemIds : RedeemScan(r)
  \/ \E r \in RedeemIds : RedeemScanFail(r)
  \/ \E r \in RedeemIds : RedeemTxSelect(r)
  \/ \E r \in RedeemIds : RedeemTxWrite(r)
  \/ \E r \in RedeemIds : RedeemTxCommit(r)
  \/ \E r \in RedeemIds : RedeemTxFail(r)
  \/ \E r \in RedeemIds : RedeemRecord(r)

SpecRecord == InitRecord /\ [][NextRecord]_vars

\* request r is answered in this step
AnsweredNow(r) == redeem[r].pc # "done" /\ redeem'[r].pc = "done"

\* the log gains exactly one row, of user u with that success flag
OneMore(u, success) ==
  code_attempts' = code_attempts
     \oplus SetToBag({ [ user_id |-> u, attempted_at |-> now, success |-> success ] })

\* the log gains exactly one row of user u
OneMoreOf(u) == OneMore(u, TRUE) \/ OneMore(u, FALSE)

\* C16 as stated: every redemption attempt appends exactly one attempt record
\* for the caller, whatever its outcome, the rate-limited rejection and the
\* internal storage failure included.
C16_AlwaysRecorded ==
  [][ \A r \in RedeemIds : AnsweredNow(r) => OneMoreOf(redeem'[r].user) ]_vars

\* C16, amended: a redemption attempt that is answered after format validation,
\* after the scan found no match, after the transaction lost its race, failed
\* or committed appends exactly one attempt record for the caller, with the
\* success flag set only for a success; an attempt rejected as RateLimited and
\* an attempt whose fetch of the active codes failed append none; the log
\* changes in no other step.
C16_RecordedOncePastLimiter ==
  [][ /\ \A r \in RedeemIds :
            AnsweredNow(r) =>
              IF redeem'[r].result = "RateLimited" \/ redeem[r].pc = "scan"
                THEN UNCHANGED code_attempts
                ELSE OneMore(redeem'[r].user, redeem'[r].result = "ok")
      /\ code_attempts' # code_attempts => \E r \in RedeemIds : AnsweredNow(r)
    ]_vars

\* u2 failed a fifth time and was then rejected as RateLimited: five rows are
\* on record, none for the rejection
C16_Witness ==
  \E r, q \in RedeemIds :
    /\ redeem[r].user = "u2" /\ redeem[r].pc = "done"
    /\ redeem[r].result = "ValidationError"
    /\ redeem[q].user = "u2" /\ redeem[q].result = "RateLimited"
    /\ BagCardinality(code_attempts) = RateLimit

(***************************************************************************)
(* Rejected attempts (checked under SpecRate).                             *)
(***************************************************************************)
\* the text has ten characters of the alphabet once case, "-" and " " are set aside
WellFormed(code) ==
  LET t == NormalForm(code) IN
    /\ Len(t) = 10
    /\ \A i \in 1..Len(t) : \E j \in 1..Len(codeAlphabet) : codeAlphabet[j] = t[i]

\* some stored code that is unredeemed, unrevoked and unexpired verifies the text
MatchesActive(code) ==
  \E c \in CodeIds : /\ invite_codes[c].redeemed_at = NULLT
                     /\ invite_codes[c].revoked_at = NULLT
                     /\ invite_codes[c].expires_at > now
                     /\ VerifyCode(code, invite_codes[c].code_hash)

\* request r runs its scan in this step
Scans(r) == redeem[r].pc = "scan" /\ redeem'[r].pc # "scan"

\* C17: an attempt that is not rate-limited is answered ValidationError when
\* the text fails format validation and NotFound when it matches no active
\* code; either answer adds one to the caller's count of recent failures and no
\* invite code, pregnancy or supporter row changes on the way.
C17_RejectedCounts ==
  [][ \A r \in RedeemIds :
        /\ ( /\ Arrives(r)
             /\ redeem'[r].result # "RateLimited"
             /\ ~ WellFormed(redeem'[r].code) ) =>
               /\ redeem'[r].result = "ValidationError"
               /\ UNCHANGED << invite_codes, pregnancies, supporters >>
        /\ (Scans(r) /\ ~ MatchesActive(redeem[r].code)) =>
               /\ redeem'[r].result = "NotFound"
               /\ UNCHANGED << invite_codes, pregnancies, supporters >>
        /\ ( /\ AnsweredNow(r)
             /\ redeem'[r].result \in { "ValidationError", "NotFound" } ) =>
               /\ CountRecentCodeAttempts(redeem[r].user)'
                    = CountRecentCodeAttempts(redeem[r].user) + 1
               /\ UNCHANGED << invite_codes, pregnancies, supporters >>
    ]_vars

\* a malformed text was answered ValidationError while an active code exists;
\* with an earlier failure the caller now has two failures on record
C17_Witness ==
  \E r \in RedeemIds :
    /\ redeem[r].pc = "done"
    /\ redeem[r].result = "ValidationError"
    /\ redeem[r].code = BadFormatText
    /\ FindActiveInviteCodes # {}
    /\ CountRecentCodeAttempts(redeem[r].user) = 2
    /\ BagCardinality(code_attempts) = 2

(***************************************************************************)
(* Supporter removal and unpairing (checked under SpecManage).             *)
(***************************************************************************)
\* supporter row s exists, belongs to a pregnancy owned by u, and is not removed
Removable(s, u) ==
  /\ s \in SupporterIds
  /\ pregnancies[supporters[s].pregnancy_id].owner_id = u
  /\ supporters[s].removed_at = NULLT

\* the pregnancies the supporter lookup and the partner lookup of the
\* resolver find for user u after this step
SupporterOfAfter(u) == GetPregnancyBySupporter(u)'
PartnerOfAfter(u) == GetPregnancyByPartner(u)'

\* after this step the user of supporter row s does not resolve to the row's
\* pregnancy as supporter
NotSupporterAfter(s) ==
  \A u \in Users, p \in PregnancyIds :
    (u = supporters[s].user_id /\ p = supporters[s].pregnancy_id) =>
      p \notin SupporterOfAfter(u)

\* C18: removeSupporter(supporterId, caller) marks the row removed exactly when
\* it belongs to a pregnancy owned by the caller and is not yet removed, and is
\* answered NotFound without any change otherwise; while a row is removed its
\* user does not resolve to that pregnancy as supporter, and a removed row
\* becomes active again only by a successful redemption of a support code of
\* that pregnancy by that user.
C18_RemoveSupporter ==
  [][ /\ \A w \in WriteIds :
            Calls(w, "RemoveSupporter") =>
              LET s == write'[w].key
                  u == write'[w].user
              IN IF Removable(s, u)
                   THEN /\ write'[w].result = "ok"
                        /\ supporters' = [ supporters EXCEPT ![s].removed_at = now ]
                        /\ UNCHANGED << pregnancies, invite_codes, code_attempts,
                                        pairing_requests, content >>
                        /\ NotSupporterAfter(s)
                   ELSE /\ write'[w].result = "NotFound"
                        /\ UNCHANGED << supporters, pregnancies, invite_codes,
                                        code_attempts, pairing_requests, content >>
      /\ \A s \in SupporterIds :
            supporters[s].removed_at # NULLT =>
              \/ /\ supporters'[s].removed_at # NULLT
                 /\ NotSupporterAfter(s)
              \/ \E r \in RedeemIds :
                   /\ Succeeds(r)
                   /\ redeem[r].user = supporters[s].user_id
                   /\ invite_codes[redeem[r].matched].role = "support"
                   /\ invite_codes[redeem[r].matched].pregnancy_id
                        = supporters[s].pregnancy_id
    ]_vars

\* the owner removed a supporter, who then redeemed a second support code of
\* the pregnancy and resolves to it as supporter again
C18_Witness ==
  \E w \in WriteIds, c \in CodeIds :
    /\ write[w].op = "RemoveSupporter"
    /\ write[w].result = "ok"
    /\ write[w].key \in SupporterIds
    /\ supporters[write[w].key].removed_at = NULLT
    /\ supporters[write[w].key].invited_via_code_id # c
    /\ invite_codes[c].role = "support"
    /\ invite_codes[c].redeemed_by = supporters[write[w].key].user_id
    /\ invite_codes[c].pregnancy_id = supporters[write[w].key].pregnancy_id
    /\ supporters[write[w].key].pregnancy_id
         \in GetPregnancyBySupporter(supporters[write[w].key].user_id)

\* the row without partner identity, status and permission
Unpaired(row) ==
  [ row EXCEPT !.partner_id = NULL, !.partner_status = NULL,
               !.partner_permission = NULL ]

\* this step unpairs exactly the pregnancies ps, whose former partners no
\* longer resolve to them as partner
Unpairs(ps) ==
  /\ \A p \in PregnancyIds :
        pregnancies'[p] = IF p \in ps THEN Unpaired(pregnancies[p]) ELSE pregnancies[p]
  /\ \A p \in ps, x \in Users :
        x = pregnancies[p].partner_id => p \notin PartnerOfAfter(x)

C20_ActsOnPendingOnly ==
  [][ \A a \in ApproveIds :
        Approves(a) => PendingFor(approve[a].request, approve[a].user)
    ]_vars

(***************************************************************************)
(* Partner permissions: u1 and u2 own a pregnancy each, a father code of   *)
(* each is out, u2 and u3 redeem, the callers change the permission and    *)
(* unpair.                                                                 *)
(***************************************************************************)
InitPermission ==
  /\ now = 0
  /\ pregnancies = << NewPregnancy("u1"), NewPregnancy("u2") >>
  /\ invite_codes =
       [ c \in 1..2 |->
           NewInviteCode(c, HashCode(GeneratedCodes[c], c),
                         GetCodePrefix(GeneratedCodes[c]), "father", "read",
                         CodeExpiration) ]
  /\ supporters = << >>
  /\ code_attempts = EmptyBag
  /\ redeem = << IdleRedeem >>
  /\ pairing_requests = << >>
  /\ approve = << >>
  /\ content = {}
  /\ write = << IdleWrite >>
  /\ access = NoAccess

NextPermission ==
  \/ \E r \in RedeemIds, u \in Guests, code \in IssuedTexts, e \in Emails :
        /\ BagCardinality(code_attempts) < MaxRedeems
        /\ RedeemArrive(r, u, code, e, FALSE)
  \/ \E r \in RedeemIds : RedeemScan(r)
  \/ \E r \in RedeemIds : RedeemTxSelect(r)
  \/ \E r \in RedeemIds : RedeemTxWrite(r)
  \/ \E r \in RedeemIds : RedeemTxCommit(r)
  \/ \E r \in RedeemIds : RedeemRecord(r)
  \/ \E r \in RedeemIds : RedeemReturn(r)
  \/ \E w \in WriteIds, u \in Users, perm \in Permissions \cup { "owner" } :
        HandleUpdatePartnerPermission(w, u, perm)
  \/ \E w \in WriteIds, u \in Users : HandleRemovePairing(w, u)
  \/ \E w \in WriteIds : WriteReturn(w)

SpecPermission == InitPermission /\ [][NextPermission]_vars

\* the pregnancies owned by u that have a partner
PairedOf(u) ==
  { p \in PregnancyIds : /\ pregnancies[p].owner_id = u
                         /\ pregnancies[p].partner_id # NULL }

\* after this step the partner of each pregnancy of ps is resolved through the
\* partner lookup with permission perm, and a partner who neither owns nor
\* co-owns a pregnancy is granted exactly that
ResolvesWith(ps, perm) ==
  \A p \in ps, x \in Users :
    x = pregnancies[p].partner_id =>
      /\ p \in PartnerOfAfter(x)
      /\ pregnancies'[p].partner_permission = perm
      /\ (Owned(x) = {} /\ Coowned(x) = {}) =>
            [ pregnancy |-> p, permission |-> perm ] \in AccessAfter(x)

\* C21: updatePermission(owner, permission) changes only the permission of the
\* partner currently paired on the owner's pregnancy, leaving partner identity
\* and status unchanged, and answers NotFound without changing anything when
\* the owner has no pregnancy or no partner is paired; afterwards the partner
\* resolves with the new permission.
C21_UpdatePermission ==
  [][ \A w \in WriteIds, perm \in Permissions :
        (Calls(w, "UpdatePartnerPermission") /\ write'[w].key = perm) =>
          LET u == write'[w].user IN
            /\ UNCHANGED << invite_codes, supporters, code_attempts,
                            pairing_requests, content >>
            /\ IF PairedOf(u) = {}
                 THEN write'[w].result = "NotFound" /\ UNCHANGED pregnancies
                 ELSE /\ write'[w].result = "ok"
                      /\ \A p \in PregnancyIds :
                           pregnancies'[p] =
                             IF p \in PairedOf(u)
                               THEN [ pregnancies[p] EXCEPT !.partner_permission = perm ]
                               ELSE pregnancies[p]
                      /\ ResolvesWith(PairedOf(u), perm)
    ]_vars

\* u1 raised the permission of partner u3 to write while u2's pregnancy, also
\* paired, kept the permission its code gave
C21_Witness ==
  \E w \in WriteIds :
    /\ write[w].op = "UpdatePartnerPermission"
    /\ write[w].user = "u1"
    /\ write[w].key = "write"
    /\ write[w].result = "ok"
    /\ pregnancies[1].partner_id = "u3"
    /\ pregnancies[1].partner_status = "approved"
    /\ pregnancies[1].partner_permission = "write"
    /\ pregnancies[2].partner_id # NULL
    /\ pregnancies[2].partner_permission = "read"

(***************************************************************************)
(* Who may issue: u1 and u2 own a pregnancy each, u1's may have u3 as      *)
(* co-owner; every user asks for codes, u2 and u3 redeem them.             *)
(***************************************************************************)
InitIssue ==
  /\ now = 0
  /\ \E c \in { NULL, "u3" } :
       pregnancies = << [ NewPregnancy("u1") EXCEPT !.coowner_id = c ],
                        NewPregnancy("u2") >>
  /\ invite_codes = << >>
  /\ supporters = << >>
  /\ code_attempts = EmptyBag
  /\ redeem = << IdleRedeem >>
  /\ pairing_requests = << >>
  /\ approve = << >>
  /\ content = {}
  /\ write = << IdleWrite >>
  /\ access = NoAccess

NextIssue ==
  \/ \E w \in WriteIds, u \in Users, role \in Roles \cup { "owner" },
         perm \in { "", "write" } : HandleGenerateInviteCode(w, u, role, perm)
  \/ \E w \in WriteIds : SaveInviteCode(w)
  \/ \E r \in RedeemIds, u \in Guests, code \in IssuedTexts :
        /\ BagCardinality(code_attempts) < MaxRedeems
        /\ RedeemArrive(r, u, code, otherEmail, FALSE)
  \/ \E r \in RedeemIds : RedeemScan(r)
  \/ \E r \in RedeemIds : RedeemTxSelect(r)
  \/ \E r \in RedeemIds : RedeemTxWrite(r)
  \/ \E r \in RedeemIds : RedeemTxCommit(r)
  \/ \E r \in RedeemIds : RedeemRecord(r)
  \/ \E r \in RedeemIds : RedeemReturn(r)
  \/ \E w \in WriteIds : WriteReturn(w)

SpecIssue == InitIssue /\ [][NextIssue]_vars

\* this step stores a new code, for a pregnancy owned by u
StoresCodeOf(u) ==
  /\ Len(invite_codes') = Len(invite_codes) + 1
  /\ pregnancies[invite_codes'[Len(invite_codes')].pregnancy_id].owner_id = u

\* C22: only the owner of a pregnancy can issue invite codes for it.  An issue
\* request from a caller who owns no pregnancy (a co-owner, a partner with
\* write permission, a supporter) is answered Forbidden and creates no code,
\* an owner's request is never answered Forbidden, and every code that is
\* created belongs to the pregnancy owned by the caller of the request that
\* created it.
C22_OwnerOnlyIssues ==
  [][ /\ \A w \in WriteIds :
           Calls(w, "GenerateInviteCode") =>
             /\ UNCHANGED invite_codes
             /\ Owned(write'[w].user) = {} <=> write'[w].result = "Forbidden"
             /\ Owned(write'[w].user) = {} => write'[w].pc = "done"
      /\ Len(invite_codes') # Len(invite_codes) =>
           \E w \in WriteIds :
             /\ write[w].op = "GenerateInviteCode"
             /\ write[w].pc = "save"
             /\ write'[w].result = "ok"
             /\ StoresCodeOf(write[w].user)
    ]_vars

\* u3, co-owner of u1's pregnancy and its partner with write permission, asked
\* for a code and was refused; the only codes are u1's
C22_Witness ==
  \E w \in WriteIds :
    /\ write[w].op = "GenerateInviteCode"
    /\ write[w].user = "u3"
    /\ write[w].result = "Forbidden"
    /\ pregnancies[1].coowner_id = "u3"
    /\ pregnancies[1].partner_id = "u3"
    /\ pregnancies[1].partner_permission = "write"
    /\ invite_codes # << >>
    /\ \A c \in CodeIds : invite_codes[c].pregnancy_id = 1

(***************************************************************************)
(* The owner's view of the codes: u1 and u2 own a pregnancy each and issue *)
(* codes, u3 redeems, the owners revoke and ask for the sharing status,    *)
(* while the codes run towards their expiry.                               *)
(***************************************************************************)
InitShare ==
  /\ now = 0
  /\ pregnancies = << NewPregnancy("u1"), NewPregnancy("u2") >>
  /\ invite_codes = << >>
  /\ supporters = << >>
  /\ code_attempts = EmptyBag
  /\ redeem = << IdleRedeem >>
  /\ pairing_requests = << >>
  /\ approve = << >>
  /\ content = {}
  /\ write = << IdleWrite >>
  /\ access = NoAccess

NextShare ==
  \/ \E w \in WriteIds, u \in { "u1", "u2" }, role \in Roles :
        HandleGenerateInviteCode(w, u, role, "")
  \/ \E w \in WriteIds : SaveInviteCode(w)
  \/ \E r \in RedeemIds, code \in IssuedTexts :
        /\ code_attempts = EmptyBag
        /\ RedeemArrive(r, "u3", code, otherEmail, FALSE)
  \/ \E r \in RedeemIds : RedeemScan(r)
  \/ \E r \in RedeemIds : RedeemTxSelect(r)
  \/ \E r \in RedeemIds : RedeemTxWrite(r)
  \/ \E r \in RedeemIds : RedeemTxCommit(r)
  \/ \E r \in RedeemIds : RedeemRecord(r)
  \/ \E r \in RedeemIds : RedeemReturn(r)
  \/ \E w \in WriteIds, u \in { "u1", "u2" }, c \in 1..MaxCodes :
        HandleRevokeInviteCode(w, u, c)
  \/ \E w \in WriteIds, u \in Users : HandleGetSharingStatus(w, u)
  \/ \E w \in WriteIds : WriteReturn(w)
  \/ TickShare

SpecShare == InitShare /\ [][NextShare]_vars

\* text would redeem a code with this hash: it is the plaintext up to formatting
Reveals(text, hash) == VerifyCode(text, hash)

\* the fields of an entry of the list of active codes
ActiveCodeFields == { "id", "codePrefix", "role", "expiresAt", "expiresIn" }

\* no stored prefix and no entry of a returned list of active codes is a
\* plaintext, and an entry carries the prefix and nothing of the hash
NothingRevealed ==
  /\ \A c, d \in CodeIds :
       /\ Len(invite_codes[c].code_prefix) = 4
       /\ ~ Reveals(invite_codes[c].code_prefix, invite_codes[d].code_hash)
  /\ \A w \in WriteIds :
       write[w].body.kind = "SharingStatus" =>
         \A i \in 1..Len(write[w].body.activeCodes) :
           LET info == write[w].body.activeCodes[i] IN
             /\ DOMAIN info = ActiveCodeFields
             /\ info.codePrefix = invite_codes[info.id].code_prefix
             /\ \A d \in CodeIds : ~ Reveals(info.codePrefix, invite_codes[d].code_hash)
  /\ \A w \in WriteIds :
       write[w].body.kind \in { "none", "SharingStatus", "GenerateCodeResponse" }
  /\ \A w \in WriteIds :
       write[w].body.kind = "GenerateCodeResponse" =>
         /\ write[w].op = "GenerateInviteCode"
         /\ DOMAIN write[w].body = { "kind", "code", "expiresAt", "role" }

\* a response carrying a plaintext is the answer of the step that stores the
\* code, it is the plaintext of that code and of no other
ReturnedOnce ==
  \A w \in WriteIds :
    (write'[w].body # write[w].body /\ write'[w].body.kind = "GenerateCodeResponse") =>
      /\ write[w].pc = "save"
      /\ Len(invite_codes') = Len(invite_codes) + 1
      /\ Reveals(write'[w].body.code, invite_codes'[Len(invite_codes')].code_hash)
      /\ \A c \in CodeIds : ~ Reveals(write'[w].body.code, invite_codes[c].code_hash)

\* every step that stores a code answers with its plaintext
ReturnedAtIssue ==
  Len(invite_codes') = Len(invite_codes) + 1 =>
    \E w \in WriteIds :
      /\ write[w].pc = "save" /\ write'[w].pc = "done"
      /\ write'[w].body.kind = "GenerateCodeResponse"
      /\ Reveals(write'[w].body.code, invite_codes'[Len(invite_codes')].code_hash)

\* C23: the plaintext of an invite code is returned exactly once, by the issue
\* operation that creates it.  It is no part of the stored record, of which
\* only the hash and the 4-character prefix persist, and no later operation
\* (the list of active codes in the sharing status, redeem, revoke) returns
\* the plaintext or the hash.
C23_PlaintextOnce ==
  /\ []NothingRevealed
  /\ [][ReturnedOnce /\ ReturnedAtIssue]_vars

\* the owner's sharing status lists an active code after another code was
\* issued, returned and redeemed
C23_Witness ==
  \E w \in WriteIds, r \in RedeemIds :
    /\ write[w].body.kind = "SharingStatus"
    /\ Len(write[w].body.activeCodes) = 1
    /\ redeem[r].result = "ok"
    /\ Len(invite_codes) = 2

\* the codes of pregnancy p that are not redeemed, not revoked and not expired
Listable(p) ==
  { c \in CodeIds : /\ invite_codes[c].pregnancy_id = p
                    /\ invite_codes[c].redeemed_at = NULLT
                    /\ invite_codes[c].revoked_at = NULLT
                    /\ invite_codes[c].expires_at > now }

\* C24: listActive(pregnancy) returns exactly the codes of that pregnancy that
\* are not redeemed, not revoked and not past expiry, each once, newest first:
\* a redeemed, revoked or expired code and a code of another pregnancy never
\* appear.
C24_ListActive ==
  [][ \A w \in WriteIds :
        (Calls(w, "GetSharingStatus") /\ write'[w].result = "ok") =>
          LET list == write'[w].body.activeCodes
              p == write'[w].pregnancy
          IN /\ pregnancies[p].owner_id = write'[w].user
             /\ { list[i].id : i \in 1..Len(list) } = Listable(p)
             /\ Len(list) = Cardinality(Listable(p))
             /\ \A i, j \in 1..Len(list) :
                  i < j => invite_codes[list[i].id].created_at
                             >= invite_codes[list[j].id].created_at
    ]_vars

\* u1's list shows the younger of two codes of the pregnancy; the older one,
\* neither redeemed nor revoked, has expired
C24_Witness ==
  \E w \in WriteIds :
    /\ write[w].op = "GetSharingStatus"
    /\ write[w].user = "u1"
    /\ write[w].result = "ok"
    /\ Len(write[w].body.activeCodes) = 1
    /\ write[w].body.activeCodes[1].id = 2
    /\ invite_codes[1].pregnancy_id = 1
    /\ invite_codes[1].redeemed_at = NULLT
    /\ invite_codes[1].revoked_at = NULLT
    /\ invite_codes[1].expires_at <= now

(***************************************************************************)
(* Supporters at the mutating endpoints: u1 owns a pregnancy and issues    *)
(* codes of both roles and permissions, u2 and u3 redeem them with either  *)
(* email and call the endpoints.                                           *)
(***************************************************************************)
InitSupport ==
  /\ now = 0
  /\ pregnancies = << NewPregnancy("u1") >>
  /\ invite_codes = << >>
  /\ supporters = << >>
  /\ code_attempts = EmptyBag
  /\ redeem = << IdleRedeem >>
  /\ pairing_requests = << >>
  /\ approve = << >>
  /\ content = {}
  /\ write = << IdleWrite >>
  /\ access = NoAccess

NextSupport ==
  \/ \E u \in Owners, role \in Roles, perm \in Permissions :
        GenerateCode(u, role, perm, Len(invite_codes) + 1)
  \/ \E r \in RedeemIds, u \in Guests, code \in IssuedTexts, e \in Emails :
        /\ BagCardinality(code_attempts) < MaxRedeems
        /\ RedeemArrive(r, u, code, e, FALSE)
  \/ \E r \in RedeemIds : RedeemScan(r)
  \/ \E r \in RedeemIds : RedeemTxSelect(r)
  \/ \E r \in RedeemIds : RedeemTxWrite(r)
  \/ \E r \in RedeemIds : RedeemTxCommit(r)
  \/ \E r \in RedeemIds : RedeemRecord(r)
  \/ \E r \in RedeemIds : RedeemReturn(r)
  \/ \E w \in WriteIds, u \in Guests : UpdatePregnancyStart(w, u)
  \/ \E w \in WriteIds, u \in Guests, id \in 1..MaxPregnancies :
        UpdatePregnancyByID(w, u, id)
  \/ \E w \in WriteIds, u \in Guests : CreateEntry(w, u, "e1")
  \/ \E w \in WriteIds, u \in Guests : PostSync(w, u, TRUE)
  \/ \E w \in WriteIds : PostSyncCreate(w)
  \/ \E w \in WriteIds : WriteApply(w)
  \/ \E w \in WriteIds : WriteReturn(w)

SpecSupport == InitSupport /\ [][NextSupport]_vars

\* the only relationship of u to any pregnancy is that of an active supporter
OnlySupporter(u) ==
  /\ Supporting(u) # {}
  /\ Owned(u) = {}
  /\ Coowned(u) = {}
  /\ \A p \in PregnancyIds : pregnancies[p].partner_id # u

InitArchive ==
  /\ now = 0
  /\ pregnancies = SetPartner(<< NewPregnancy("u1") >>, 1, "u2", "write",
                              DisplayNameOf("u2"), FALSE)
  /\ invite_codes = << >>
  /\ supporters = << >>
  /\ code_attempts = EmptyBag
  /\ redeem = << >>
  /\ pairing_requests = << >>
  /\ approve = << >>
  /\ content = {}
  /\ write = << IdleWrite >>
  /\ access = NoAccess

NextArchive ==
  \/ \E w \in WriteIds, u \in { "u1", "u2" }, id \in 1..MaxPregnancies,
         archived \in BOOLEAN : HandleSetPregnancyArchive(w, u, id, archived)
  \/ \E w \in WriteIds, u \in { "u1", "u2" }, id \in 1..MaxPregnancies,
         outcome \in { "birth", "unknown" } :
        HandleSetPregnancyOutcome(w, u, id, outcome)
  \/ \E w \in WriteIds : SetPregnancyOutcome(w)
  \/ \E w \in WriteIds, u \in { "u1", "u2" } : UpdatePregnancyStart(w, u)
  \/ \E w \in WriteIds, u \in { "u1", "u2" } : CreateEntry(w, u, "e1")
  \/ \E w \in WriteIds, u \in { "u1", "u2" } : DeleteEntryStart(w, u, "e1")
  \/ \E w \in WriteIds, u \in { "u1", "u2" } : UpdateSetting(w, u, "s1")
  \/ \E w \in WriteIds, u \in { "u1", "u2" } : UploadFile(w, u, "f1")
  \/ \E w \in WriteIds : WriteApply(w)
  \/ \E w \in WriteIds : WriteReturn(w)

SpecArchive == InitArchive /\ [][NextArchive]_vars

\* the entries, settings and file records of pregnancy p
ContentOf(rows, p) == { row \in rows : row.pregnancy_id = p }

\* C26: an archived pregnancy is read-only.  While its archived flag is true
\* no operation by any caller, the owner included, changes its outcome,
\* profile fields, entries, settings or files; only un-archiving changes it,
\* and that changes the flag alone.
C26_ArchivedReadOnly ==
  [][ \A p \in PregnancyIds :
        pregnancies[p].archived =>
          /\ ContentOf(content', p) = ContentOf(content, p)
          /\ pregnancies'[p] = [ pregnancies[p] EXCEPT
                                   !.archived = pregnancies'[p].archived ]
    ]_vars

(***************************************************************************)
(* The codec: codes are generated from the draws and the texts a client    *)
(* may type for them are checked.                                          *)
(***************************************************************************)
InitCodec ==
  /\ now = 0
  /\ pregnancies = << >>
  /\ invite_codes = << >>
  /\ supporters = << >>
  /\ code_attempts = EmptyBag
  /\ redeem = << >>
  /\ pairing_requests = << >>
  /\ approve = << >>
  /\ content = {}
  /\ write = << IdleWrite >>
  /\ access = NoAccess

NextCodec ==
  \/ \E w \in WriteIds, randomBytes \in Draws : CodecGenerate(w, randomBytes)
  \/ \E w \in WriteIds :
        /\ write[w].pc = "codec"
        /\ \E text \in TypedTexts(write[w].body.code) : CodecVerify(w, text)
  \/ \E w \in WriteIds : WriteReturn(w)

SpecCodec == InitCodec /\ [][NextCodec]_vars

\* the byte values for which position i of a code becomes symbol sym
ByteValuesOf(sym) ==
  { b \in 0..255 : codeAlphabet[(b % Len(codeAlphabet)) + 1] = sym }

\* the characters of a code left after removing the separators
Plain(code) == SelectSeq(code, LAMBDA c : c # "-")

\* C27: generate() produces 10 code characters, each drawn uniformly from a
\* 32-symbol alphabet that excludes 0, O, 1, I and L: the alphabet has exactly
\* 32 symbols and every symbol is selected by the same number of values of
\* the random byte of a position.
C27_UniformAlphabet ==
  \A w \in WriteIds :
    write[w].body.kind = "code" =>
      LET plain == Plain(write[w].body.code) IN
        /\ Len(plain) = 10
        /\ \A i \in 1..Len(plain) : plain[i] \in SeqRange(codeAlphabet)
        /\ SeqRange(codeAlphabet) \cap { "0", "O", "1", "I", "L" } = {}
        /\ Len(codeAlphabet) = 32
        /\ \A sym \in SeqRange(codeAlphabet) :
             Cardinality(ByteValuesOf(sym)) = Cardinality(ByteValuesOf(plain[1]))

\* the shape XXXX-XXXX-XX in upper case
Shaped(code) ==
  /\ Len(code) = 12
  /\ \A i \in 1..12 :
       IF i \in { 5, 10 } THEN code[i] = "-"
       ELSE code[i] # "-" /\ code[i] # " " /\ ToUpperChar(code[i]) = code[i]

\* C28: every generated code is valid for validateFormat and has the shape
\* XXXX-XXXX-XX in upper case; normalize is idempotent; validateFormat(x) is
\* true exactly when normalize(x) has length 10 and every character of it is
\* in the alphabet.
C28_CodecLaws ==
  \A w \in WriteIds :
    /\ write[w].body.kind = "code" =>
         /\ IsValidCodeFormat(write[w].body.code)
         /\ Shaped(write[w].body.code)
         /\ NormalizeCode(NormalizeCode(write[w].body.code))
              = NormalizeCode(write[w].body.code)
    /\ write[w].body.kind = "verify" =>
         LET n == write[w].body.normalized IN
           /\ NormalizeCode(n) = n
           /\ write[w].body.valid <=>
                /\ Len(n) = 10
                /\ \A i \in 1..Len(n) : \E k \in 1..Len(codeAlphabet) : codeAlphabet[k] = n[i]

\* a generated code typed in lower case: valid, and normalized to a text that
\* differs from what was typed
C28_Witness ==
  \E w \in WriteIds :
    /\ write[w].body.kind = "verify"
    /\ write[w].body.input = ToLower(write[w].body.code)
    /\ write[w].body.input # write[w].body.code
    /\ write[w].body.normalized # write[w].body.input
    /\ write[w].body.valid

\* a text without its formatting: upper case, separators and whitespace removed
Unformatted(text) ==
  SelectSeq(ToUpper(text), LAMBDA c : c \notin { "-", " ", "\t", "\n", "\r" })

\* C29: formatting differences never affect matching.  For every issued code
\* c and every input x, x matches the stored hash of c exactly when
\* normalize(x) = normalize(c); the code entered in lower case, without
\* separators, or with extra separators or whitespace is accepted and matches
\* the same code; verify(c, hash(c)) is true.
C29_FormattingIrrelevant ==
  \A w \in WriteIds :
    /\ write[w].body.kind = "code" =>
         VerifyCode(write[w].body.code, write[w].body.hash)
    /\ write[w].body.kind = "verify" =>
         LET x == write[w].body.input
             c == write[w].body.code
         IN /\ write[w].body.match <=> NormalizeCode(x) = NormalizeCode(c)
            /\ Unformatted(x) = Unformatted(c) =>
                 write[w].body.valid /\ write[w].body.match

\* C30: once a user is the approved partner of a pregnancy, that user stays
\* its partner until remove is called by the owner or by the partner: no
\* redemption of a father code and no legacy approve replaces an approved
\* partner with a different user.
C30_PartnerStays ==
  [][ \A p \in PregnancyIds :
        ( /\ pregnancies[p].partner_id # NULL
          /\ pregnancies[p].partner_status = "approved" ) =>
            pregnancies'[p].partner_id \in { pregnancies[p].partner_id, NULL }
    ]_vars


(***************************************************************************)
(* Revocation against redemption.                                          *)
(***************************************************************************)
\* the finished revoke calls that succeeded on code c
RevokedBy(c) ==
  { w \in WriteIds : /\ write[w].op = "RevokeInviteCode"
                     /\ write[w].key = c
                     /\ write[w].result = "ok" }

\* the redemption requests that matched code c in their scan and have their outcome
RedeemedBy(c) ==
  { r \in RedeemIds : redeem[r].matched = c /\ redeem[r].result # NULL }

\* no code is both redeemed and revoked; a redemption that matched a code now
\* revoked ended NotFound, and a revoke by the owner that ended NotFound lost
\* to a redemption or to an earlier revoke
OneOfRedeemedRevoked ==
  \A c \in CodeIds :
    /\ ~ ( invite_codes[c].redeemed_at # NULLT /\ invite_codes[c].revoked_at # NULLT )
    /\ RevokedBy(c) # {} => /\ invite_codes[c].revoked_at # NULLT
                            /\ invite_codes[c].redeemed_by = NULL
    /\ invite_codes[c].revoked_at # NULLT =>
         \A r \in RedeemedBy(c) : redeem[r].result = "NotFound"
    /\ \A r \in RedeemedBy(c) :
         redeem[r].result = "ok" => /\ invite_codes[c].redeemed_at # NULLT
                                    /\ RevokedBy(c) = {}
    /\ \A w \in WriteIds :
         ( /\ write[w].op = "RevokeInviteCode"
           /\ write[w].key = c
           /\ write[w].user = pregnancies[invite_codes[c].pregnancy_id].owner_id
           /\ write[w].result = "NotFound" ) =>
             \/ invite_codes[c].redeemed_at # NULLT
             \/ invite_codes[c].revoked_at # NULLT

\* a revoked code stays revoked and unredeemed, and no redemption of it succeeds
RevokedForGood ==
  \A c \in CodeIds :
    invite_codes[c].revoked_at # NULLT =>
      /\ invite_codes'[c] = invite_codes[c]
      /\ \A r \in RedeemIds :
           redeem[r].matched = c => redeem'[r].result # "ok"

\* C31: no invite code is ever both redeemed and revoked.  When a revoke by the
\* owner and a redemption of the same active code run concurrently, one of them
\* takes effect and the other is answered NotFound, and after a revoke that
\* succeeded the code never changes again and no redemption of it succeeds.
C31_RedeemOrRevoke == []OneOfRedeemedRevoked /\ [][RevokedForGood]_vars

\* the revoke won the race: the redemption had matched the code in its scan,
\* the owner's revoke succeeded and the redemption was answered NotFound
C31_Witness ==
  \E c \in CodeIds, r \in RedeemIds, w \in WriteIds :
    /\ w \in RevokedBy(c)
    /\ redeem[r].matched = c
    /\ redeem[r].result = "NotFound"
    /\ redeem[r].pc = "done"

(***************************************************************************)
(* The rate limiter under concurrent requests of one user.                 *)
(***************************************************************************)
\* request r compares the stored codes with its text in this step
Compares(r) == redeem[r].pc = "scan" /\ redeem'[r].pc # "scan"

\* at most 5 failures of a user are on record within the trailing hour
AtMostFiveFailures ==
  \A u \in Users : BagCardinality(RecentFailures(u)) <= RateLimit

\* no comparison is made for a user with 5 failures on record
NoCompareAtLimit ==
  \A r \in RedeemIds :
    Compares(r) => BagCardinality(RecentFailures(redeem[r].user)) < RateLimit

\* C32: for every user at most 5 failed redemption attempts are recorded within
\* any trailing hour, and no code is compared with a submitted value for a user
\* who already has 5 such failures, also when the user's requests are concurrent.
C32_LimitHolds == []AtMostFiveFailures /\ [][NoCompareAtLimit]_vars

(***************************************************************************)
(* The end of a lockout.                                                   *)
(***************************************************************************)
\* every failure of user u on record is at least an hour old
LockoutOver(u) ==
  \A a \in BagToSet(code_attempts) :
    ( a.user_id = u /\ ~ a.success ) => now >= a.attempted_at + RateWindow

\* C33: a rate-limited user is unblocked again.  An attempt answered RateLimited
\* adds no record, so it does not extend the lockout, and an attempt that arrives
\* an hour or more after the user's last counted failure is evaluated, however
\* many attempts were rejected in between.
C33_LockoutEnds ==
  [][ \A r \in RedeemIds :
        Arrives(r) =>
          /\ redeem'[r].result = "RateLimited" => code_attempts' = code_attempts
          /\ LockoutOver(redeem'[r].user) => redeem'[r].result # "RateLimited"
    ]_vars

\* five failures at time 0, one hour later: the attempt is being evaluated
C33_Witness ==
  \E r \in RedeemIds :
    /\ redeem[r].pc \in { "scan", "record" }
    /\ BagCardinality(code_attempts) = RateLimit
    /\ CountRecentCodeAttempts_Ever(redeem[r].user) = RateLimit
    /\ LockoutOver(redeem[r].user)
    /\ now = RateWindow

(***************************************************************************)
(* The limiter on a store whose count query fails: u1 issued a support     *)
(* code, u2 has five failed attempts on record within the hour.            *)
(***************************************************************************)
InitCountFail ==
  /\ now = 0
  /\ pregnancies = << NewPregnancy("u1") >>
  /\ invite_codes =
       << NewInviteCode(1, HashCode(GeneratedCodes[1], 1),
                        GetCodePrefix(GeneratedCodes[1]), "support", "read",
                        CodeExpiration) >>
  /\ supporters = << >>
  /\ code_attempts =
       [ a \in { [ user_id |-> "u2", attempted_at |-> 0, success |-> FALSE ] } |->
           RateLimit ]
  /\ redeem = [ r \in 1..MaxRedeems |-> IdleRedeem ]
  /\ pairing_requests = << >>
  /\ approve = << >>
  /\ content = {}
  /\ write = << >>
  /\ access = NoAccess

NextCountFail ==
  \/ \E r \in RedeemIds, u \in Guests, code \in RateTexts, e \in Emails :
        RedeemArrive(r, u, code, e, TRUE)
  \/ \E r \in RedeemIds : RedeemScan(r)
  \/ \E r \in RedeemIds : RedeemTxSelect(r)
  \/ \E r \in RedeemIds : RedeemTxWrite(r)
  \/ \E r \in RedeemIds : RedeemTxCommit(r)
  \/ \E r \in RedeemIds : RedeemRecord(r)

SpecCountFail == InitCountFail /\ [][NextCountFail]_vars

\* C34: when the count of recent failures cannot be read, the attempt is not
\* rejected: whatever is on record for the user, it goes on to format
\* validation and, with a well-formed text, to the matching of the codes, as
\* for a user under the limit, and it changes no row in that step.
C34_FailOpen ==
  [][ \A r \in RedeemIds :
        Arrives(r) =>
          /\ redeem'[r].result # "RateLimited"
          /\ IF IsValidCodeFormat(redeem'[r].code)
               THEN redeem'[r].pc = "scan" /\ redeem'[r].result = NULL
               ELSE redeem'[r].pc = "record" /\ redeem'[r].result = "ValidationError"
          /\ UNCHANGED << pregnancies, invite_codes, supporters, code_attempts >>
    ]_vars

\* a user with five failures within the hour redeemed the code
C34_Witness ==
  \E r \in RedeemIds :
    /\ redeem[r].result = "ok"
    /\ redeem[r].pc = "done"
    /\ CountRecentCodeAttempts(redeem[r].user) >= RateLimit
    /\ \E s \in SupporterIds : supporters[s].user_id = redeem[r].user

(***************************************************************************)
(* The partner slot under every way of changing it: u1 owns a pregnancy;   *)
(* father codes are issued and redeemed, legacy requests are made and      *)
(* approved, permissions are updated and pairings removed.                 *)
(***************************************************************************)
InitPartner ==
  /\ now = 0
  /\ pregnancies = << NewPregnancy("u1") >>
  /\ invite_codes = << >>
  /\ supporters = << >>
  /\ code_attempts = EmptyBag
  /\ redeem = << IdleRedeem >>
  /\ pairing_requests = << >>
  /\ approve = << IdleApprove >>
  /\ content = {}
  /\ write = << >>
  /\ access = NoAccess

NextPartner ==
  \/ \E u \in Owners : GenerateCode(u, "father", "read", Len(invite_codes) + 1)
  \/ \E r \in RedeemIds, u \in Guests, code \in IssuedTexts, e \in Emails :
        /\ BagCardinality(code_attempts) < MaxRedeems
        /\ RedeemArrive(r, u, code, e, FALSE)
  \/ \E r \in RedeemIds : RedeemScan(r)
  \/ \E r \in RedeemIds : RedeemTxSelect(r)
  \/ \E r \in RedeemIds : RedeemTxWrite(r)
  \/ \E r \in RedeemIds : RedeemTxCommit(r)
  \/ \E r \in RedeemIds : RedeemRecord(r)
  \/ \E r \in RedeemIds : RedeemReturn(r)
  \/ \E u \in Guests, email \in TargetEmails : CreatePairingRequest(u, email)
  \/ \E a \in ApproveIds, u \in { "u1", "u2" }, id \in 1..MaxRequests :
        ApproveSelect(a, u, id, "write")
  \/ \E a \in ApproveIds : ApproveUpdateRequest(a)
  \/ \E a \in ApproveIds : ApproveCommit(a)
  \/ \E u \in Users, perm \in Permissions : UpdatePartnerPermission(u, perm)
  \/ \E u \in Users : RemovePairing(u)

SpecPartner == InitPartner /\ [][NextPartner]_vars

\* C35: in every reachable state the partner fields of a pregnancy are
\* consistent: identity, status and permission are all set or all empty, and a
\* set status is approved, whatever the interleaving of redeem, approve,
\* updatePermission and remove.
C35_PartnerConsistent ==
  \A p \in PregnancyIds :
    LET row == pregnancies[p] IN
      \/ /\ row.partner_id = NULL
         /\ row.partner_status = NULL
         /\ row.partner_permission = NULL
      \/ /\ row.partner_id # NULL
         /\ row.partner_status = "approved"
         /\ row.partner_permission # NULL

\* a pregnancy whose partner came by a code was unpaired and then paired again
\* by an approved request, and the owner changed the permission afterwards
C35_Witness ==
  \E p \in PregnancyIds, c \in CodeIds, id \in RequestIds :
    /\ invite_codes[c].pregnancy_id = p
    /\ invite_codes[c].redeemed_by # NULL
    /\ invite_codes[c].redeemed_by # pregnancies[p].partner_id
    /\ pairing_requests[id].status = "approved"
    /\ pairing_requests[id].target_id = pregnancies[p].owner_id
    /\ pairing_requests[id].requester_id = pregnancies[p].partner_id
    /\ pregnancies[p].partner_permission # pairing_requests[id].permission

\* pregnancy p gets a partner it did not have before this step
Paired(p) ==
  /\ pregnancies'[p].partner_id # NULL
  /\ pregnancies'[p].partner_id # pregnancies[p].partner_id

\* the step commits a redemption made with the admin email for pregnancy p
AdminRedeems(p) ==
  \E r \in RedeemIds : /\ redeem[r].pc = "tx_written"
                       /\ redeem[r].email = adminEmail
                       /\ redeem'[r].result = "ok"
                       /\ redeem'[r].pregnancy = p

\* C36: the display-card flag of a pregnancy is false only while its current
\* partner is one who redeemed with the admin email: every step that pairs a
\* new partner, by a code or by a legacy approve, stores that partner's display
\* name and leaves the flag true unless it is an admin redemption.
C36_CardFollowsPartner ==
  [][ \A p \in PregnancyIds :
        Paired(p) =>
          /\ pregnancies'[p].partner_name = DisplayNameOf(pregnancies'[p].partner_id)
          /\ pregnancies'[p].display_partner_card = ~ AdminRedeems(p)
    ]_vars

(***************************************************************************)
(* The resolver as a function of the state.                                *)
(***************************************************************************)
\* C37: in every reachable state each user is the approved partner of at most
\* one pregnancy and the active supporter of at most one pregnancy, so the
\* pregnancy and permission resolved for a user are uniquely determined, and a
\* supporter's permission is read from the row of the pregnancy returned.
C37_ResolveIsFunction ==
  \A u \in Users :
    /\ Cardinality(GetPregnancyByPartner(u)) <= 1
    /\ Cardinality(GetSupporterByUserID(u)) <= 1
    /\ Cardinality(getAccessiblePregnancy(u)) <= 1
    /\ Cardinality(GetMyRole(u)) <= 1

(***************************************************************************)
(* The target of a pairing request: u1 owns a pregnancy, u2 and u3 make    *)
(* requests, every user answers them, and the users table changes.         *)
(***************************************************************************)
InitTarget ==
  /\ now = 0
  /\ pregnancies = << NewPregnancy("u1") >>
  /\ invite_codes = << >>
  /\ supporters = << >>
  /\ code_attempts = EmptyBag
  /\ redeem = << >>
  /\ pairing_requests = << >>
  /\ approve = [ a \in 1..MaxApproves |-> IdleApprove ]
  /\ content = {}
  /\ write = << >>
  /\ access = NoAccess

NextTarget ==
  \/ \E u \in Guests, email \in TargetEmails : CreatePairingRequest(u, email)
  \/ \E a \in ApproveIds, u \in Users, id \in 1..MaxRequests, perm \in Permissions :
        ApproveSelect(a, u, id, perm)
  \/ \E a \in ApproveIds : ApproveUpdateRequest(a)
  \/ \E a \in ApproveIds : ApproveCommit(a)
  \/ \E id \in RequestIds, u \in Users : DenyPairingRequest(id, u)
  \/ TickHalfHour

SpecTarget == InitTarget /\ [][NextTarget]_vars

\* every approve call that got past its SELECT was made by the stored target
OnlyTargetApproves ==
  \A a \in ApproveIds :
    approve[a].request # 0 =>
      pairing_requests[approve[a].request].target_id = approve[a].user

\* the stored target never changes; a request leaves pending only when it has
\* a target, and a request without one never changes at all
TargetFixed ==
  \A id \in RequestIds :
    /\ pairing_requests'[id].target_id = pairing_requests[id].target_id
    /\ pairing_requests'[id].status # pairing_requests[id].status =>
         pairing_requests[id].target_id # NULL
    /\ pairing_requests[id].target_id = NULL =>
         /\ pairing_requests'[id] = pairing_requests[id]
         /\ pairing_requests[id].status = "pending"
         /\ \A a \in ApproveIds : approve'[a].request # id

\* C38: a pairing request is resolvable only by the user its target email
\* resolved to when it was created.  A request created while the email matched
\* no user has no target and stays pending for ever: every approve or deny on
\* it, by any user, is answered NotFound and changes nothing, also after a user
\* with that email exists.
C38_TargetAtCreation == []OnlyTargetApproves /\ [][TargetFixed]_vars

\* a request without target is still pending, the address now belongs to u3,
\* and u3's approve was answered NotFound
C38_Witness ==
  \E id \in RequestIds, a \in ApproveIds :
    /\ pairing_requests[id].target_id = NULL
    /\ pairing_requests[id].status = "pending"
    /\ Len(pairing_requests) = MaxRequests
    /\ \A other \in RequestIds : pairing_requests[other].target_id = NULL
    /\ UsersByEmail(<< "n", "@", "x" >>) = { "u3" }
    /\ approve[a].user = "u3"
    /\ approve[a].result = "NotFound"
====
